---- MODULE Spec2Model ----
(***************************************************************************)
(* Model of the IESO market-data pipeline: the per-horizon reports, the    *)
(* hourly and interval merges (hourly_processor.py, interval_processor.py),*)
(* the four historical append operations and the daily flow               *)
(* (orchestrator.py).                                                      *)
(*                                                                         *)
(* A DataFrame is a record [columns, rows]: columns is the ordered list of *)
(* column names, rows the ordered list of rows, each row a function from   *)
(* the column names to values.  Metric values are exact fractions <<n, d>> *)
(* (floats without rounding), NaN is <<0, 0>>.  A timestamp is             *)
(* <<day, time-of-day>>; the text of a date, as a CSV cell or a date_str   *)
(* argument holds it, is <<"str", day, time-of-day>>.                      *)
(***************************************************************************)
EXTENDS Integers, Sequences, FiniteSets, TLC

VARIABLES
    store,      \* GCS bucket: blob path of a historical dataset -> its CSV content
    target,     \* the append operation a behaviour of Spec exercises
    last,       \* the latest append call: arguments, loaded dataset, outcome
    prev,       \* the append call before it
    written,    \* per calendar day, the number of append calls that persisted rows of it
    ncalls,     \* number of append calls made so far
    mismatched, \* some call passed a table holding a row of another day than date_str
    inp,        \* SpecMerge: the three raw horizon tables handed to a create_* function
                \* (SpecFilter, SpecDecide: the arguments; SpecAuth: the secrets)
    out,        \* SpecMerge: what the create_* function returned
    procs,      \* SpecConc: the concurrent append runs
    pc,         \* SpecFlow: position of run_all_flow (SpecAuth: of the app script)
    run,        \* SpecFlow: the run's date, its tables and its per-dataset branches
                \* (SpecAuth: the browser session)
    fs          \* SpecFlow: the local data/ directory, path -> raw table

vars == <<store, target, last, prev, written, ncalls, mismatched, inp, out, procs, pc, run, fs>>

----------------------------------------------------------------------------
(* Bounds of the model *)

MaxDay == 2         \* calendar days 0..MaxDay; day 0 is in every dataset from its creation
MaxCalls == 2       \* append calls per behaviour of Spec
NumHours == 2       \* delivery hours 1..NumHours carried by the modelled reports

(* Program constants *)

NumIntervals == 12  \* 5-minute intervals per delivery hour

Days == 0..MaxDay
Hours == 1..NumHours
Intervals == 1..NumIntervals
Loc == "A"

----------------------------------------------------------------------------
(* Values *)

NaN == <<0, 0>>
Val(n) == <<n, 1>>

RECURSIVE Gcd(_, _)
Gcd(a, b) == IF b = 0 THEN a ELSE Gcd(b, a % b)

Frac(n, d) == LET g == Gcd(n, d) IN <<n \div g, d \div g>>

DateText(day, tod) == <<"str", day, tod>>

\* pd.to_datetime: parses the text of a date, leaves a timestamp as it is
to_datetime(v) == IF Len(v) = 3 THEN <<v[2], v[3]>> ELSE v

\* Timestamp.normalize / Series.dt.normalize: midnight of the same day
normalize(ts) == <<ts[1], 0>>

timestamp(ts) == ts

\* Timestamp.date / Series.dt.date: the calendar day
date(ts) == ts[1]

\* DataFrame.to_csv writes a timestamp as text; every other cell keeps its value
CsvCell(c, v) == IF c = "Date" /\ Len(v) = 2 THEN DateText(v[1], v[2]) ELSE v

----------------------------------------------------------------------------
(* DataFrame operations (pandas) *)

Range(s) == {s[i] : i \in DOMAIN s}

RECURSIVE Flatten(_)
Flatten(ss) == IF ss = <<>> THEN <<>> ELSE Head(ss) \o Flatten(Tail(ss))

EmptyFrame(cols) == [columns |-> cols, rows |-> <<>>]

\* df.rename(columns = m): names that m does not list pass through
NewName(m, c) == IF c \in DOMAIN m THEN m[c] ELSE c

RenameRow(m, r) ==
    [n \in {NewName(m, c) : c \in DOMAIN r} |->
        r[CHOOSE c \in DOMAIN r : NewName(m, c) = n]]

Rename(df, m) ==
    [columns |-> [i \in DOMAIN df.columns |-> NewName(m, df.columns[i])],
     rows    |-> [i \in DOMAIN df.rows |-> RenameRow(m, df.rows[i])]]

\* df["Date"] = pd.to_datetime(df["Date"])
ParseDates(df) ==
    [df EXCEPT !.rows = [i \in DOMAIN df.rows |->
        [df.rows[i] EXCEPT !["Date"] = to_datetime(df.rows[i]["Date"])]]]

\* df["Date"] = pd.to_datetime(df["Date"]).dt.normalize()
NormalizeDates(df) ==
    [df EXCEPT !.rows = [i \in DOMAIN df.rows |->
        [df.rows[i] EXCEPT !["Date"] = normalize(to_datetime(df.rows[i]["Date"]))]]]

\* df[cols]: raises KeyError unless every name of cols is a column of df
HasColumns(df, cols) == Range(cols) \subseteq Range(df.columns)

SelectColumns(df, cols) ==
    [columns |-> cols,
     rows    |-> [i \in DOMAIN df.rows |-> [c \in Range(cols) |-> df.rows[i][c]]]]

\* df.drop(columns = c)
DropColumn(df, c) ==
    SelectColumns(df, SelectSeq(df.columns, LAMBDA x : x # c))

\* pd.concat([a, b], axis = 0): the columns of a, then those only b has; a cell
\* of a column the row's frame lacks is NaN
ConcatColumns(a, b) ==
    a.columns \o SelectSeq(b.columns, LAMBDA c : c \notin Range(a.columns))

Widen(r, cols) == [c \in Range(cols) |-> IF c \in DOMAIN r THEN r[c] ELSE NaN]

\* Timestamps in ascending order
DateLeq(a, b) == a[1] < b[1] \/ (a[1] = b[1] /\ a[2] <= b[2])

\* df.sort_values('Date', ascending = True): a new frame holding the rows of
\* df in ascending Date order, rows of equal Date in their order in df; df
\* itself stays as it is
RECURSIVE SortedRows(_)
SortedRows(rows) ==
    IF rows = <<>> THEN <<>>
    ELSE LET i == CHOOSE k \in DOMAIN rows :
                    /\ \A j \in DOMAIN rows : DateLeq(rows[k]["Date"], rows[j]["Date"])
                    /\ \A j \in 1..(k - 1) : rows[j]["Date"] # rows[k]["Date"]
         IN  <<rows[i]>> \o SortedRows(SubSeq(rows, 1, i - 1) \o
                                         SubSeq(rows, i + 1, Len(rows)))

sort_values(df) == [df EXCEPT !.rows = SortedRows(df.rows)]

ConcatSorted(a, b) ==
    LET cols == ConcatColumns(a, b)
    IN  sort_values([columns |-> cols,
                     rows    |-> [i \in DOMAIN a.rows |-> Widen(a.rows[i], cols)]
                                 \o [i \in DOMAIN b.rows |-> Widen(b.rows[i], cols)]])

ConcatNewFirst(a, b) ==
    LET cols == b.columns \o SelectSeq(a.columns, LAMBDA c : c \notin Range(b.columns))
    IN  [columns |-> cols,
         rows    |-> [i \in DOMAIN b.rows |-> Widen(b.rows[i], cols)]
                     \o [i \in DOMAIN a.rows |-> Widen(a.rows[i], cols)]]

ConcatOnlyNew(a, b) == b

Concat(a, b) ==
    LET cols == ConcatColumns(a, b)
    IN  [columns |-> cols,
         rows    |-> [i \in DOMAIN a.rows |-> Widen(a.rows[i], cols)]
                     \o [i \in DOMAIN b.rows |-> Widen(b.rows[i], cols)]]

\* pd.merge(l, r, on = on, how = 'inner'): raises KeyError unless both frames
\* have every key column.  One output row per pair of a left and a right row
\* with equal keys, in the order of the left rows; the left columns, then the
\* right frame's other columns; a name both frames have outside the keys gets
\* the suffix _x on the left and _y on the right.
Overlap(l, r, on) == (Range(l.columns) \cap Range(r.columns)) \ Range(on)

MergeLeftNames(l, r, on) == [c \in Overlap(l, r, on) |-> c \o "_x"]

MergeRightNames(l, r, on) == [c \in Overlap(l, r, on) |-> c \o "_y"]

SameKey(a, b, on) == \A k \in Range(on) : a[k] = b[k]

MergeRowBlank(lr, rr, mL, mR, on) ==
    RenameRow(mL, lr) @@ RenameRow(mR, [c \in DOMAIN rr \ Range(on) |-> NaN])

MergeRow(lr, rr, mL, mR, on) ==
    RenameRow(mL, lr) @@ RenameRow(mR, [c \in DOMAIN rr \ Range(on) |-> rr[c]])

\* how = 'left': a left row without a match is kept, its right cells NaN
MergeLeft(l, r, on) ==
    LET mL == MergeLeftNames(l, r, on)
        mR == MergeRightNames(l, r, on)
        rest == SelectSeq(r.columns, LAMBDA c : c \notin Range(on))
        matches(lr) == SelectSeq(r.rows, LAMBDA rr : SameKey(lr, rr, on))
        blank == [c \in Range(r.columns) |-> NaN]
    IN  [columns |-> [i \in DOMAIN l.columns |-> NewName(mL, l.columns[i])]
                     \o [i \in DOMAIN rest |-> NewName(mR, rest[i])],
         rows    |-> Flatten([i \in DOMAIN l.rows |->
                        IF matches(l.rows[i]) = <<>>
                        THEN <<MergeRow(l.rows[i], blank, mL, mR, on)>>
                        ELSE [j \in DOMAIN matches(l.rows[i]) |->
                                MergeRow(l.rows[i], matches(l.rows[i])[j], mL, mR, on)]])]

Merge(l, r, on) ==
    LET mL == MergeLeftNames(l, r, on)
        mR == MergeRightNames(l, r, on)
        rest == SelectSeq(r.columns, LAMBDA c : c \notin Range(on))
        matches(lr) == SelectSeq(r.rows, LAMBDA rr : SameKey(lr, rr, on))
    IN  [columns |-> [i \in DOMAIN l.columns |-> NewName(mL, l.columns[i])]
                     \o [i \in DOMAIN rest |-> NewName(mR, rest[i])],
         rows    |-> Flatten([i \in DOMAIN l.rows |->
                        [j \in DOMAIN matches(l.rows[i]) |->
                            MergeRow(l.rows[i], matches(l.rows[i])[j], mL, mR, on)]])]

\* Order of the group keys (Pricing Location, Date, Delivery Hour): the model
\* has one pricing location, so the date and then the hour decide
KeyRank(k) == (to_datetime(k[2])[1] * 2 + to_datetime(k[2])[2]) * (NumHours + 2) + k[3]

RECURSIVE SortKeys(_)
SortKeys(S) ==
    IF S = {} THEN <<>>
    ELSE LET m == CHOOSE k \in S : \A o \in S : KeyRank(k) <= KeyRank(o)
         IN  <<m>> \o SortKeys(S \ {m})

IsIntColumn(c) == c \in {"Delivery Hour", "Interval"}

AddFrac(a, b) == Frac(a[1] * b[2] + b[1] * a[2], a[2] * b[2])

RECURSIVE FracSum(_)
FracSum(s) == IF s = <<>> THEN <<0, 1>> ELSE AddFrac(Head(s), FracSum(Tail(s)))

\* The sum of the values present divided by twelve
MeanOfTwelve(vals) ==
    LET have == SelectSeq(vals, LAMBDA v : v # NaN)
        t == FracSum(have)
    IN  IF have = <<>> THEN NaN ELSE Frac(t[1], t[2] * NumIntervals)

\* Series.mean: the sum of the values present divided by their number
Mean(vals) ==
    LET have == SelectSeq(vals, LAMBDA v : v # NaN)
        t == FracSum(have)
    IN  IF have = <<>> THEN NaN ELSE Frac(t[1], t[2] * Len(have))

\* df.groupby(keys).mean().reset_index(): raises KeyError unless df has the key
\* columns; one row per distinct key, sorted by key; the key columns first,
\* then every other column holding the mean of the group's values
KeyOf(r, keys) == [i \in DOMAIN keys |-> r[keys[i]]]

\* The first row of every group instead of the mean of its rows
GroupbyFirst(df, keys) ==
    LET groups == SortKeys({KeyOf(df.rows[i], keys) : i \in DOMAIN df.rows})
        rest == SelectSeq(df.columns, LAMBDA c : c \notin Range(keys))
        cols == keys \o rest
        members(g) == SelectSeq(df.rows, LAMBDA r : KeyOf(r, keys) = g)
        cell(g, c) ==
            IF c \in Range(keys)
            THEN g[CHOOSE i \in DOMAIN keys : keys[i] = c]
            ELSE IF IsIntColumn(c) THEN Val(members(g)[1][c]) ELSE members(g)[1][c]
    IN  [columns |-> cols,
         rows    |-> [i \in DOMAIN groups |-> [c \in Range(cols) |-> cell(groups[i], c)]]]

GroupbyMean(df, keys) ==
    LET groups == SortKeys({KeyOf(df.rows[i], keys) : i \in DOMAIN df.rows})
        rest == SelectSeq(df.columns, LAMBDA c : c \notin Range(keys))
        cols == keys \o rest
        members(g) == SelectSeq(df.rows, LAMBDA r : KeyOf(r, keys) = g)
        cell(g, c) ==
            IF c \in Range(keys)
            THEN g[CHOOSE i \in DOMAIN keys : keys[i] = c]
            ELSE Mean([i \in DOMAIN members(g) |->
                        IF IsIntColumn(c) THEN Val(members(g)[i][c])
                        ELSE members(g)[i][c]])
    IN  [columns |-> cols,
         rows    |-> [i \in DOMAIN groups |-> [c \in Range(cols) |-> cell(groups[i], c)]]]

----------------------------------------------------------------------------
(* Raw reports, as the fetch layer stores them and read_csv returns them *)

EnergyMetrics == <<"LMP", "Energy Loss Price", "Energy Congestion Price">>

ORMetrics == <<"LMP 10S", "Congestion Price 10S", "LMP 10N", "Congestion Price 10N",
               "LMP 30R", "Congestion Price 30R">>

HourKey == <<"Pricing Location", "Date", "Delivery Hour">>

IntervalKey == <<"Pricing Location", "Date", "Delivery Hour", "Interval">>

\* The price the report of horizon h quotes for metric number m
Price(h, day, hour, itv, m) == Val(1000 * h + 100 * m + 20 * hour + day + itv)

\* A Day-Ahead (h = 1) or Pre-Dispatch (h = 2) report: one row per hour of hrs
HourlyReport(metrics, h, day, hrs, hourCol) ==
    LET cols == <<hourCol, "Pricing Location">> \o metrics \o <<"Date">>
        hs == SortKeys({<<Loc, <<day, 0>>, x>> : x \in hrs})
        cell(hour, c) ==
            CASE c = hourCol -> hour
              [] c = "Pricing Location" -> Loc
              [] c = "Date" -> DateText(day, 0)
              [] OTHER -> Price(h, day, hour, 0,
                                CHOOSE m \in DOMAIN metrics : metrics[m] = c)
    IN  [columns |-> cols,
         rows    |-> [i \in DOMAIN hs |-> [c \in Range(cols) |-> cell(hs[i][3], c)]]]

\* A Real-Time report: one row per hour and interval of have (hour -> intervals)
RealTimeReport(metrics, day, have) ==
    LET cols == <<"Delivery Hour", "Interval", "Pricing Location">> \o metrics \o <<"Date">>
        hs == SortKeys({<<Loc, <<day, 0>>, x>> : x \in {y \in DOMAIN have : have[y] # {}}})
        its(hour) == SelectSeq([k \in Intervals |-> k], LAMBDA k : k \in have[hour])
        cell(hour, itv, c) ==
            CASE c = "Delivery Hour" -> hour
              [] c = "Interval" -> itv
              [] c = "Pricing Location" -> Loc
              [] c = "Date" -> DateText(day, 0)
              [] OTHER -> Price(3, day, hour, itv,
                                CHOOSE m \in DOMAIN metrics : metrics[m] = c)
    IN  [columns |-> cols,
         rows    |-> Flatten([i \in DOMAIN hs |->
                        [j \in DOMAIN its(hs[i][3]) |->
                            [c \in Range(cols) |-> cell(hs[i][3], its(hs[i][3])[j], c)]]])]

----------------------------------------------------------------------------
(* interval_processor.py: expansion of an hourly table to intervals *)

WithInterval(r, k) ==
    [c \in DOMAIN r \cup {"Interval"} |-> IF c = "Interval" THEN k ELSE r[c]]

\* The twelve intervals outermost: all rows at interval 1, then at interval 2, ...
expand_tiled(df_hourly) ==
    [columns |-> IF "Interval" \in Range(df_hourly.columns) THEN df_hourly.columns
                 ELSE df_hourly.columns \o <<"Interval">>,
     rows    |-> Flatten([k \in Intervals |->
                    [i \in DOMAIN df_hourly.rows |-> WithInterval(df_hourly.rows[i], k)]])]

expand_to_intervals(df_hourly) ==
    [columns |-> IF "Interval" \in Range(df_hourly.columns) THEN df_hourly.columns
                 ELSE df_hourly.columns \o <<"Interval">>,
     rows    |-> Flatten([i \in DOMAIN df_hourly.rows |->
                    [k \in Intervals |-> WithInterval(df_hourly.rows[i], k)]])]

----------------------------------------------------------------------------
(* The four create_* merge functions.  Each raises (create_*_ok is FALSE)   *)
(* when a column it names is missing; otherwise it returns create_*.        *)

SuffixMapFirst(col_to_rename, sfx) ==
    [c \in {col_to_rename[1]} |-> c \o sfx]

SuffixMap(col_to_rename, sfx) == [c \in Range(col_to_rename) |-> c \o sfx]

\* or_pre_dispatch_df.rename(columns = {'DELIVERY_HOUR': 'Delivery Hour'})
NoFixDeliveryHour(df) == df

FixDeliveryHour(df) ==
    IF "DELIVERY_HOUR" \in Range(df.columns)
    THEN Rename(df, [c \in {"DELIVERY_HOUR"} |-> "Delivery Hour"])
    ELSE df

HasDate(df) == "Date" \in Range(df.columns)

\* groupby(...).mean().reset_index().drop(columns = 'Interval').rename(...).assign(Date = ...)
RealTimeHourly(rt, col_to_rename) ==
    ParseDates(Rename(DropColumn(GroupbyMean(rt, HourKey), "Interval"),
                      SuffixMap(col_to_rename, "_Real_Time")))

Normalized(df, col_to_rename, sfx) ==
    ParseDates(Rename(df, SuffixMap(col_to_rename, sfx)))

MergeThree(a, b, c, on) == Merge(Merge(a, b, on), c, on)

create_hourly_energy_data_ok(da, pd, rt) ==
    /\ HasColumns(rt, HourKey) /\ "Interval" \in Range(rt.columns)
    /\ HasDate(da) /\ HasDate(pd)
    /\ HasColumns(da, HourKey) /\ HasColumns(pd, HourKey)

create_hourly_energy_data(da, pd, rt) ==
    MergeThree(Normalized(da, EnergyMetrics, "_Day_Ahead"),
               Normalized(pd, EnergyMetrics, "_Pre_Dispatch"),
               RealTimeHourly(rt, EnergyMetrics), HourKey)

create_hourly_OR_data_ok(da, pd, rt) ==
    /\ HasColumns(rt, HourKey) /\ "Interval" \in Range(rt.columns)
    /\ HasDate(da) /\ HasDate(pd)
    /\ HasColumns(da, HourKey) /\ HasColumns(FixDeliveryHour(pd), HourKey)

create_hourly_OR_data(da, pd, rt) ==
    MergeThree(Normalized(da, ORMetrics, "_Day_Ahead"),
               FixDeliveryHour(Normalized(pd, ORMetrics, "_Pre_Dispatch")),
               RealTimeHourly(rt, ORMetrics), HourKey)

create_interval_energy_data_ok(da, pd, rt) ==
    /\ HasDate(da) /\ HasDate(pd) /\ HasDate(rt)
    /\ HasColumns(expand_to_intervals(da), IntervalKey)
    /\ HasColumns(expand_to_intervals(pd), IntervalKey)
    /\ HasColumns(rt, IntervalKey)

\* The Real-Time table aggregated to hours and expanded again, like the
\* other two horizons
create_interval_energy_data_hourly_rt(da, pd, rt) ==
    MergeThree(
        ParseDates(expand_to_intervals(Rename(da, SuffixMap(EnergyMetrics, "_Day_Ahead")))),
        ParseDates(expand_to_intervals(Rename(pd, SuffixMap(EnergyMetrics, "_Pre_Dispatch")))),
        expand_to_intervals(RealTimeHourly(rt, EnergyMetrics)), IntervalKey)

create_interval_energy_data(da, pd, rt) ==
    MergeThree(
        ParseDates(expand_to_intervals(Rename(da, SuffixMap(EnergyMetrics, "_Day_Ahead")))),
        ParseDates(expand_to_intervals(Rename(pd, SuffixMap(EnergyMetrics, "_Pre_Dispatch")))),
        Normalized(rt, EnergyMetrics, "_Real_Time"), IntervalKey)

create_interval_OR_data_ok(da, pd, rt) ==
    /\ HasDate(da) /\ HasDate(pd) /\ HasDate(rt)
    /\ HasColumns(expand_to_intervals(da), IntervalKey)
    /\ HasColumns(FixDeliveryHour(expand_to_intervals(pd)), IntervalKey)
    /\ HasColumns(rt, IntervalKey)

create_interval_OR_data(da, pd, rt) ==
    MergeThree(
        Normalized(expand_to_intervals(da), ORMetrics, "_Day_Ahead"),
        FixDeliveryHour(Normalized(expand_to_intervals(pd), ORMetrics, "_Pre_Dispatch")),
        Normalized(rt, ORMetrics, "_Real_Time"), IntervalKey)

----------------------------------------------------------------------------
(* The historical datasets in the GCS bucket and the four append functions *)

BlobPaths ==
    [add_hourly_energy_data   |-> "energy/processed/energy_historical_hourly.csv.gz",
     add_hourly_OR_data       |-> "operating_reserve/processed/OR_historical_hourly.csv.gz",
     add_interval_energy_data |-> "energy/processed/energy_historical_interval.csv.gz",
     add_interval_OR_data     |-> "operating_reserve/processed/OR_historical_interval.csv.gz"]

AppendFns == DOMAIN BlobPaths

Paths == {BlobPaths[f] : f \in AppendFns}

BucketUrl == "https://storage.googleapis.com/ieso_monitoring_market_data/"

\* The blob a public URL of the bucket names
BlobOfUrl(url) == CHOOSE p \in Paths : BucketUrl \o p = url

\* DataFrame.to_csv(index = False)
ToCsv(df) ==
    [df EXCEPT !.rows = [i \in DOMAIN df.rows |->
        [c \in DOMAIN df.rows[i] |-> CsvCell(c, df.rows[i][c])]]]

\* pd.read_csv(url, compression = 'gzip', parse_dates = ["Date"])
read_csv(bucket, url) == ParseDates(bucket[BlobOfUrl(url)])

\* write_df_to_gcs(df, blob_path): the blob is replaced by the CSV of df
write_df_to_gcs(bucket, df, blob_path) == [bucket EXCEPT ![blob_path] = ToCsv(df)]

\* The calendar days a stored dataset holds rows of, and its rows of day d
DaysOfBlob(blob) == {to_datetime(blob.rows[i]["Date"])[1] : i \in DOMAIN blob.rows}
RowsOfDay(blob, d) == SelectSeq(blob.rows, LAMBDA r : to_datetime(r["Date"])[1] = d)

NormDate(v) == normalize(to_datetime(v))

DaysInFirstRow(df) == IF df.rows = <<>> THEN {} ELSE {date(df.rows[1]["Date"])}

\* df["Date"].dt.date.unique()
DaysIn(df) == {date(df.rows[i]["Date"]) : i \in DOMAIN df.rows}

DateAbsentAlways(date_str, historical_df) == TRUE

\* target_date.date() not in historical_df["Date"].dt.date.unique()
DateAbsent(date_str, historical_df) ==
    date(normalize(to_datetime(date_str))) \notin DaysIn(historical_df)

\* The body the four append functions share, from the date normalisation on:
\* historical_df is the loaded dataset, columns the list the new table is
\* indexed with.  Returns the branch taken and the frame handed to
\* write_df_to_gcs on the Appended branch.
\* new_historical_df.sort_values('Date', ascending=True) is called without
\* inplace and its result is bound to no name: write_df_to_gcs is handed
\* new_historical_df, the concatenation.
AppendCore(historical_df, df, columns, absent) ==
    LET new == NormalizeDates(df)
        hist == NormalizeDates(historical_df)
        new_historical_df == Concat(hist, SelectColumns(new, columns))
        dropped == sort_values(new_historical_df)
    IN  IF ~HasDate(df) THEN [outcome |-> "KeyError", df |-> hist]
        ELSE IF absent
             THEN IF HasColumns(new, columns)
                  THEN [outcome |-> "Appended", df |-> new_historical_df]
                  ELSE [outcome |-> "KeyError", df |-> hist]
             ELSE [outcome |-> "Skipped", df |-> hist]

AppendBody(historical_df, df, date_str, columns) ==
    AppendCore(historical_df, df, columns, DateAbsent(date_str, historical_df))

\* What a call leaves: the branch taken and the bucket
PersistAlways(bucket, res, blob_path) ==
    [outcome |-> res.outcome,
     wrote   |-> TRUE,
     bucket  |-> write_df_to_gcs(bucket, res.df, blob_path)]

Persist(bucket, res, blob_path) ==
    [outcome |-> res.outcome,
     wrote   |-> res.outcome = "Appended",
     bucket  |-> IF res.outcome = "Appended"
                 THEN write_df_to_gcs(bucket, res.df, blob_path)
                 ELSE bucket]

\* The column list each append function indexes the new table with:
\* add_interval_OR_data takes it from the new table, the other three from the
\* historical dataset
ColumnsUsed(fn, historical_df, df) ==
    IF fn = "add_interval_OR_data" THEN df.columns ELSE historical_df.columns

\* An append function from the loaded dataset on, up to the frame it writes
AppendFrom(fn, historical_df, df, date_str) ==
    AppendBody(historical_df, df, date_str, ColumnsUsed(fn, historical_df, df))

add_hourly_energy_data(bucket, hourly_energy_df, date_str) ==
    LET energy_url == BucketUrl \o "energy/processed/energy_historical_hourly.csv.gz"
        energy_historical_df == read_csv(bucket, energy_url)
    IN  Persist(bucket,
                AppendFrom("add_hourly_energy_data", energy_historical_df,
                           hourly_energy_df, date_str),
                "energy/processed/energy_historical_hourly.csv.gz")

add_hourly_OR_data(bucket, hourly_or_df, date_str) ==
    LET or_url == BucketUrl \o "operating_reserve/processed/OR_historical_hourly.csv.gz"
        or_historical_df == read_csv(bucket, or_url)
    IN  Persist(bucket,
                AppendFrom("add_hourly_OR_data", or_historical_df, hourly_or_df, date_str),
                "operating_reserve/processed/OR_historical_hourly.csv.gz")

add_interval_energy_data(bucket, interval_energy_df, date_str) ==
    LET energy_url == BucketUrl \o "energy/processed/energy_historical_interval.csv.gz"
        energy_historical_df == read_csv(bucket, energy_url)
    IN  Persist(bucket,
                AppendFrom("add_interval_energy_data", energy_historical_df,
                           interval_energy_df, date_str),
                "energy/processed/energy_historical_interval.csv.gz")

add_interval_OR_data(bucket, interval_or_df, date_str) ==
    LET or_url == BucketUrl \o "operating_reserve/processed/OR_historical_interval.csv.gz"
        or_historical_df == read_csv(bucket, or_url)
    IN  Persist(bucket,
                AppendFrom("add_interval_OR_data", or_historical_df, interval_or_df,
                           date_str),
                "operating_reserve/processed/OR_historical_interval.csv.gz")

----------------------------------------------------------------------------
(* SpecMerge: the create_* functions applied to bounded raw tables *)

appendVars == <<store, target, last, prev, written, ncalls, mismatched>>
mergeVars == <<inp, out>>
flowVars == <<pc, run, fs>>

AppendUnused ==
    /\ store = <<>> /\ target = "none" /\ last = <<>> /\ prev = <<>>
    /\ written = <<>> /\ ncalls = 0 /\ mismatched = FALSE
AppendUnusedButStore ==
    /\ target = "none" /\ last = <<>> /\ prev = <<>>
    /\ written = <<>> /\ ncalls = 0 /\ mismatched = FALSE
MergeUnused == inp = <<>> /\ out = <<>>
ConcUnused == procs = <<>>
FlowUnused == pc = "unused" /\ run = <<>> /\ fs = <<>>

\* The raw inputs: the hours the Day-Ahead and the Pre-Dispatch table hold, the
\* intervals the Real-Time table holds for each hour (none, all, all but the
\* last), the day the Pre-Dispatch table is of, and the name of its hour column
\* (the last two vary for a complete Real-Time table)
IntervalSets == {{}, Intervals, Intervals \ {NumIntervals}}

HourColumns == {"Delivery Hour", "DELIVERY_HOUR"}

\* Besides the plain inputs, whose prices differ in every cell: the inputs
\* of the end-to-end example (Day-Ahead 10, Pre-Dispatch 11, Real-Time twelve
\* times 12) and inputs in which one horizon's report lacks its first metric
\* column
Variants == {"plain", "example", "no_da_metric", "no_pd_metric", "no_rt_metric"}

MergeInputs ==
    [day : {1}, da : SUBSET Hours, pd : SUBSET Hours, rt : [Hours -> IntervalSets],
     pdDay : {1}, pdHourCol : {"Delivery Hour"}, variant : {"plain"}]
    \cup
    [day : {1}, da : SUBSET Hours, pd : SUBSET Hours, rt : {[h \in Hours |-> Intervals]},
     pdDay : {1, 2}, pdHourCol : HourColumns, variant : {"plain"}]
    \cup
    [day : {1}, da : {Hours}, pd : {Hours}, rt : {[h \in Hours |-> Intervals]},
     pdDay : {1}, pdHourCol : HourColumns, variant : Variants \ {"plain"}]

ExamplePrice(horizon) ==
    CASE horizon = "da" -> Val(10) [] horizon = "pd" -> Val(11) [] horizon = "rt" -> Val(12)

SetMetrics(df, metrics, v) ==
    [df EXCEPT !.rows = [i \in DOMAIN df.rows |->
        [c \in DOMAIN df.rows[i] |-> IF c \in Range(metrics) THEN v ELSE df.rows[i][c]]]]

Shaped(i, horizon, metrics, df) ==
    CASE i.variant = "example" -> SetMetrics(df, metrics, ExamplePrice(horizon))
      [] i.variant = "no_" \o horizon \o "_metric" -> DropColumn(df, metrics[1])
      [] OTHER -> df

InputDA(i, metrics) ==
    Shaped(i, "da", metrics, HourlyReport(metrics, 1, i.day, i.da, "Delivery Hour"))
InputPD(i, metrics) ==
    Shaped(i, "pd", metrics, HourlyReport(metrics, 2, i.pdDay, i.pd, i.pdHourCol))
InputRT(i, metrics) ==
    Shaped(i, "rt", metrics, RealTimeReport(metrics, i.day, i.rt))

Returned(fn, ok, df) ==
    [fn |-> fn, ok |-> ok, df |-> IF ok THEN df ELSE EmptyFrame(<<>>)]

InitMerge ==
    /\ inp \in MergeInputs
    /\ out = <<>>
    /\ AppendUnused /\ ConcUnused /\ FlowUnused

CreateHourlyEnergy ==
    /\ out = <<>>
    /\ LET da == InputDA(inp, EnergyMetrics)
           pd == InputPD(inp, EnergyMetrics)
           rt == InputRT(inp, EnergyMetrics)
       IN  out' = Returned("create_hourly_energy_data",
                           create_hourly_energy_data_ok(da, pd, rt),
                           create_hourly_energy_data(da, pd, rt))
    /\ UNCHANGED <<inp, appendVars, procs, flowVars>>

CreateHourlyOR ==
    /\ out = <<>>
    /\ LET da == InputDA(inp, ORMetrics)
           pd == InputPD(inp, ORMetrics)
           rt == InputRT(inp, ORMetrics)
       IN  out' = Returned("create_hourly_OR_data",
                           create_hourly_OR_data_ok(da, pd, rt),
                           create_hourly_OR_data(da, pd, rt))
    /\ UNCHANGED <<inp, appendVars, procs, flowVars>>

CreateIntervalEnergy ==
    /\ out = <<>>
    /\ LET da == InputDA(inp, EnergyMetrics)
           pd == InputPD(inp, EnergyMetrics)
           rt == InputRT(inp, EnergyMetrics)
       IN  out' = Returned("create_interval_energy_data",
                           create_interval_energy_data_ok(da, pd, rt),
                           create_interval_energy_data(da, pd, rt))
    /\ UNCHANGED <<inp, appendVars, procs, flowVars>>

CreateIntervalOR ==
    /\ out = <<>>
    /\ LET da == InputDA(inp, ORMetrics)
           pd == InputPD(inp, ORMetrics)
           rt == InputRT(inp, ORMetrics)
       IN  out' = Returned("create_interval_OR_data",
                           create_interval_OR_data_ok(da, pd, rt),
                           create_interval_OR_data(da, pd, rt))
    /\ UNCHANGED <<inp, appendVars, procs, flowVars>>

NextMerge ==
    \/ CreateHourlyEnergy
    \/ CreateHourlyOR
    \/ CreateIntervalEnergy
    \/ CreateIntervalOR

SpecMerge == InitMerge /\ [][NextMerge]_vars

----------------------------------------------------------------------------
(* SpecSteps: the steps the create_* functions are made of, each applied to  *)
(* one raw table of the bounded inputs                                       *)

Markets == {"energy", "OR"}

MarketMetrics(market) == IF market = "energy" THEN EnergyMetrics ELSE ORMetrics

\* The raw table of a market and horizon ("da", "pd", "rt")
RawInput(i, market, horizon) ==
    CASE horizon = "da" -> InputDA(i, MarketMetrics(market))
      [] horizon = "pd" -> InputPD(i, MarketMetrics(market))
      [] horizon = "rt" -> InputRT(i, MarketMetrics(market))

Stepped(fn, market, horizon, df) ==
    [fn |-> fn, ok |-> TRUE, df |-> df, market |-> market, horizon |-> horizon]

InitSteps ==
    /\ inp \in MergeInputs
    /\ out = <<>>
    /\ AppendUnused /\ ConcUnused /\ FlowUnused

\* expand_to_intervals(df_hourly) on a Day-Ahead or Pre-Dispatch table
ExpandToIntervals ==
    /\ out = <<>>
    /\ \E market \in Markets : \E horizon \in {"da", "pd"} :
          out' = Stepped("expand_to_intervals", market, horizon,
                         expand_to_intervals(RawInput(inp, market, horizon)))
    /\ UNCHANGED <<inp, appendVars, procs, flowVars>>

\* The Real-Time aggregation of the hourly functions: groupby, mean,
\* reset_index, drop Interval, rename, assign Date
AggregateRealTime ==
    /\ out = <<>>
    /\ \E market \in Markets :
          out' = Stepped("real_time_hourly", market, "rt",
                         RealTimeHourly(RawInput(inp, market, "rt"),
                                        MarketMetrics(market)))
    /\ UNCHANGED <<inp, appendVars, procs, flowVars>>

HorizonSuffix(horizon) ==
    CASE horizon = "da" -> "_Day_Ahead"
      [] horizon = "pd" -> "_Pre_Dispatch"
      [] horizon = "rt" -> "_Real_Time"

\* The column normalization of a raw table: rename(columns = {col:
\* f"{col}_<Horizon>" for col in col_to_rename}) and assign(Date = ...)
NormalizeColumns ==
    /\ out = <<>>
    /\ \E market \in Markets : \E horizon \in {"da", "pd", "rt"} :
          out' = Stepped("normalize", market, horizon,
                         Normalized(RawInput(inp, market, horizon),
                                    MarketMetrics(market), HorizonSuffix(horizon)))
    /\ UNCHANGED <<inp, appendVars, procs, flowVars>>

NextSteps ==
    \/ ExpandToIntervals
    \/ AggregateRealTime
    \/ NormalizeColumns

SpecSteps == InitSteps /\ [][NextSteps]_vars

----------------------------------------------------------------------------
(* Spec: sequential calls of one append function with bounded arguments *)

Reverse(q) == [i \in DOMAIN q |-> q[Len(q) + 1 - i]]

MetricsOf(fn) ==
    IF fn \in {"add_hourly_energy_data", "add_interval_energy_data"}
    THEN EnergyMetrics ELSE ORMetrics

\* The table the merge of a complete day yields for the dataset fn appends to
MergedDay(fn, day, hrs) ==
    LET m == MetricsOf(fn)
        da == HourlyReport(m, 1, day, hrs, "Delivery Hour")
        pd == HourlyReport(m, 2, day, hrs, "Delivery Hour")
        rt == RealTimeReport(m, day, [h \in hrs |-> Intervals])
    IN  CASE fn = "add_hourly_energy_data" -> create_hourly_energy_data(da, pd, rt)
          [] fn = "add_hourly_OR_data" -> create_hourly_OR_data(da, pd, rt)
          [] fn = "add_interval_energy_data" -> create_interval_energy_data(da, pd, rt)
          [] fn = "add_interval_OR_data" -> create_interval_OR_data(da, pd, rt)

\* Each dataset was created from the merged table of day 0
InitialBucket == [p \in Paths |->
    ToCsv(MergedDay(CHOOSE f \in AppendFns : BlobPaths[f] = p, 0, {1}))]

Shapes == {"same", "permuted", "missing", "extra"}

\* A new-day table: the merged table of `day` with its dates at time-of-day
\* tod, its columns as `shape` says
Reshape(df, shape) ==
    CASE shape = "same" -> df
      [] shape = "permuted" -> SelectColumns(df, Reverse(df.columns))
      [] shape = "missing" -> DropColumn(df, df.columns[Len(df.columns)])
      [] shape = "extra" ->
            [columns |-> df.columns \o <<"Extra">>,
             rows |-> [i \in DOMAIN df.rows |-> df.rows[i] @@ ("Extra" :> Val(7))]]

AtTimeOfDay(df, tod) ==
    [df EXCEPT !.rows = [i \in DOMAIN df.rows |->
        [df.rows[i] EXCEPT !["Date"] = <<df.rows[i]["Date"][1], tod>>]]]

DayTable(fn, t) ==
    Reshape(AtTimeOfDay(MergedDay(fn, t.day, t.hrs), t.tod),
            t.shape)

NextDay(d) == (d + 1) % (MaxDay + 1)

\* The arguments of a call: date_str and a description of the new-day table.
\* For every day: that day's table, and the empty table a merge without a
\* common key yields.  For day 1 also: the day's table with its columns
\* permuted, with a column missing, with an extra column, with a time-of-day
\* in its dates, a date_str with a time-of-day, and the table of another day.
Call(d, dtod, day, tod, hrs, shape) ==
    [date_str |-> DateText(d, dtod),
     table |-> [day |-> day, tod |-> tod, hrs |-> hrs, shape |-> shape]]

CallArgs ==
    {Call(d, 0, d, 0, hrs, "same") : d \in Days, hrs \in {{1}, {}}}
    \cup {Call(1, 0, 1, 0, {1}, sh) : sh \in Shapes}
    \cup {Call(1, 0, 1, 1, {1}, "same"),
          Call(1, 1, 1, 0, {1}, "same"),
          Call(1, 0, NextDay(1), 0, {1}, "same")}

Init ==
    /\ store = InitialBucket
    /\ target \in AppendFns
    /\ last = <<>> /\ prev = <<>>
    /\ written = [d \in Days |-> 0]
    /\ ncalls = 0
    /\ mismatched = FALSE
    /\ MergeUnused /\ ConcUnused /\ FlowUnused

\* Bookkeeping of a call that returned res
Record(fn, a, df, res) ==
    LET days == {date(NormDate(df.rows[i]["Date"])) : i \in DOMAIN df.rows}
    IN  /\ store' = res.bucket
        /\ prev' = last
        /\ last' = [fn |-> fn, date_str |-> a.date_str, table |-> a.table,
                    loaded |-> store[BlobPaths[fn]], outcome |-> res.outcome,
                    wrote |-> res.wrote]
        /\ written' = [d \in Days |->
                IF res.outcome = "Appended" /\ d \in days
                THEN written[d] + 1 ELSE written[d]]
        /\ mismatched' = (mismatched \/ days \ {date(to_datetime(a.date_str))} # {})
        /\ ncalls' = ncalls + 1
        /\ UNCHANGED <<target, mergeVars, procs, flowVars>>

AddHourlyEnergy ==
    /\ target = "add_hourly_energy_data" /\ ncalls < MaxCalls
    /\ \E a \in CallArgs : \E df \in {DayTable(target, a.table)} :
          \E res \in {add_hourly_energy_data(store, df, a.date_str)} : Record(target, a, df, res)

AddHourlyOR ==
    /\ target = "add_hourly_OR_data" /\ ncalls < MaxCalls
    /\ \E a \in CallArgs : \E df \in {DayTable(target, a.table)} :
          \E res \in {add_hourly_OR_data(store, df, a.date_str)} : Record(target, a, df, res)

AddIntervalEnergy ==
    /\ target = "add_interval_energy_data" /\ ncalls < MaxCalls
    /\ \E a \in CallArgs : \E df \in {DayTable(target, a.table)} :
          \E res \in {add_interval_energy_data(store, df, a.date_str)} : Record(target, a, df, res)

AddIntervalOR ==
    /\ target = "add_interval_OR_data" /\ ncalls < MaxCalls
    /\ \E a \in CallArgs : \E df \in {DayTable(target, a.table)} :
          \E res \in {add_interval_OR_data(store, df, a.date_str)} : Record(target, a, df, res)

Next ==
    \/ AddHourlyEnergy
    \/ AddHourlyOR
    \/ AddIntervalEnergy
    \/ AddIntervalOR

Spec == Init /\ [][Next]_vars

----------------------------------------------------------------------------
(* SpecDecide: one call of an append function on a dataset whose rows carry *)
(* any time-of-day, with a date_str that carries any time-of-day            *)

TimesOfDay == {0, 1}

\* A dataset of fn holding, for every day of DOMAIN tods, that day's merged
\* table with its dates at time-of-day tods[day]
RECURSIVE HistoryUpTo(_, _, _)
HistoryUpTo(fn, tods, d) ==
    LET today == IF d \in DOMAIN tods
                 THEN AtTimeOfDay(MergedDay(fn, d, {1}), tods[d]).rows
                 ELSE <<>>
    IN  IF d = 0 THEN today ELSE HistoryUpTo(fn, tods, d - 1) \o today

History(fn, tods) ==
    ToCsv([columns |-> MergedDay(fn, 0, {1}).columns,
           rows |-> HistoryUpTo(fn, tods, MaxDay)])

Histories == UNION {[S -> TimesOfDay] : S \in SUBSET Days}

\* The append function named fn
AppendCall(fn, bucket, df, date_str) ==
    CASE fn = "add_hourly_energy_data" -> add_hourly_energy_data(bucket, df, date_str)
      [] fn = "add_hourly_OR_data" -> add_hourly_OR_data(bucket, df, date_str)
      [] fn = "add_interval_energy_data" -> add_interval_energy_data(bucket, df, date_str)
      [] fn = "add_interval_OR_data" -> add_interval_OR_data(bucket, df, date_str)

InitDecide ==
    /\ target \in AppendFns
    /\ \E tods \in Histories :
          store = [InitialBucket EXCEPT ![BlobPaths[target]] = History(target, tods)]
    /\ \E d \in Days, tod \in TimesOfDay :
          inp = [date_str |-> DateText(d, tod),
                 table |-> [day |-> d, tod |-> 0, hrs |-> {1}, shape |-> "same"]]
    /\ out = <<>>
    /\ last = <<>> /\ prev = <<>> /\ written = <<>> /\ ncalls = 0 /\ mismatched = FALSE
    /\ ConcUnused /\ FlowUnused

\* The call add_*(df, date_str) on the dataset
DecideAppend ==
    /\ out = <<>>
    /\ \E df \in {DayTable(target, inp.table)} :
       \E res \in {AppendCall(target, store, df, inp.date_str)} :
          /\ store' = res.bucket
          /\ out' = [fn |-> target, loaded |-> store[BlobPaths[target]],
                     outcome |-> res.outcome, wrote |-> res.wrote]
    /\ UNCHANGED <<target, inp, last, prev, written, ncalls, mismatched, procs, flowVars>>

NextDecide == DecideAppend

SpecDecide == InitDecide /\ [][NextDecide]_vars

----------------------------------------------------------------------------
(* SpecConc: runs of one append function that overlap.  A run loads the     *)
(* dataset (read_csv), then decides on the frame it loaded and writes       *)
(* (write_df_to_gcs); another run may act between the two steps.            *)

Procs == {1, 2}

NoRun == [pc |-> "idle", date_str |-> <<>>, table |-> <<>>,
          historical_df |-> EmptyFrame(<<>>), outcome |-> ""]

\* Each run appends the conforming table of its own date
ConcArgs == {Call(d, 0, d, 0, {1}, "same") : d \in Days}

FreshFrame(historical_df, bucket, url) == read_csv(bucket, url)

\* The frame the date check and the concat work on is the one read at the
\* start of the call; the dataset is not read again before the write
LoadedFrame(historical_df, bucket, url) == historical_df

InitConc ==
    /\ store = InitialBucket
    /\ target \in AppendFns
    /\ procs = [p \in Procs |-> NoRun]
    /\ ncalls = 0
    /\ last = <<>> /\ prev = <<>> /\ written = <<>> /\ mismatched = FALSE
    /\ MergeUnused /\ FlowUnused

\* pd.read_csv(url, ...) of a run that starts
Load(p) ==
    /\ procs[p].pc \in {"idle", "done"} /\ ncalls < MaxCalls
    /\ \E a \in ConcArgs :
          procs' = [procs EXCEPT ![p] =
                       [pc |-> "loaded", date_str |-> a.date_str, table |-> a.table,
                        historical_df |-> read_csv(store, BucketUrl \o BlobPaths[target]),
                        outcome |-> ""]]
    /\ ncalls' = ncalls + 1
    /\ UNCHANGED <<store, target, last, prev, written, mismatched, mergeVars, flowVars>>

\* The rest of the call: date check, concat, write_df_to_gcs
Finish(p) ==
    /\ procs[p].pc = "loaded"
    /\ \E hist \in {LoadedFrame(procs[p].historical_df, store,
                                BucketUrl \o BlobPaths[target])} :
       \E res \in {Persist(store,
                           AppendFrom(target, hist, DayTable(target, procs[p].table),
                                      procs[p].date_str),
                           BlobPaths[target])} :
          /\ store' = res.bucket
          /\ procs' = [procs EXCEPT ![p].pc = "done", ![p].outcome = res.outcome]
    /\ UNCHANGED <<target, last, prev, written, ncalls, mismatched, mergeVars, flowVars>>

NextConc ==
    \/ \E p \in Procs : Load(p)
    \/ \E p \in Procs : Finish(p)

SpecConc == InitConc /\ [][NextConc]_vars

----------------------------------------------------------------------------
(* SpecFlow: run_all_flow for one date, started again after it ended.  The  *)
(* flow is a sequence of calls; pc names the call it is about to make.      *)

MaxRuns == 2

Fetchers ==
    <<"fetch_day_ahead_energy_lmp", "fetch_day_ahead_OR_lmp",
      "fetch_predisp_energy_lmp", "fetch_predisp_OR_lmp",
      "fetch_real_time_energy_lmp", "fetch_real_time_OR_lmp">>

FlowStepsAppendFirst ==
    <<"fetch_day_ahead_energy_lmp", "fetch_day_ahead_OR_lmp",
      "fetch_predisp_energy_lmp", "fetch_predisp_OR_lmp",
      "fetch_real_time_energy_lmp", "fetch_real_time_OR_lmp",
      "add_hourly_energy_data", "create_hourly_data", "add_hourly_OR_data",
      "create_interval_data", "add_interval_energy_data", "add_interval_OR_data",
      "done">>

\* The calls of run_all_flow in the order it makes them
FlowSteps ==
    Fetchers \o
    <<"create_hourly_data", "add_hourly_energy_data", "add_hourly_OR_data",
      "create_interval_data", "add_interval_energy_data", "add_interval_OR_data",
      "done">>

After(step) == FlowSteps[(CHOOSE i \in DOMAIN FlowSteps : FlowSteps[i] = step) + 1]

\* The %Y%m%d text of a date as the file names embed it
FileDate(date_str) == "2025050" \o ToString(date_str[2])

\* os.path.join(folder, f"<name>_{date_str}.csv.gz"): where a fetch saves
SavedPath(fetcher, date_str) ==
    LET local_path ==
            [fetch_day_ahead_energy_lmp |-> "data/energy/day_ahead/energy_day_ahead_",
             fetch_day_ahead_OR_lmp     |-> "data/operating_reserve/day_ahead/OR_day_ahead_",
             fetch_predisp_energy_lmp   |-> "data/energy/predispatch/energy_predispatch_",
             fetch_predisp_OR_lmp       |-> "data/operating_reserve/predispatch/OR_predispatch_",
             fetch_real_time_energy_lmp |-> "data/energy/real_time/energy_real_time_",
             fetch_real_time_OR_lmp     |-> "data/operating_reserve/real_time/OR_real_time_"]
    IN  local_path[fetcher] \o FileDate(date_str) \o ".csv.gz"

\* The file create_hourly_data and create_interval_data read for a report
ReadPath(fetcher, date_str) ==
    LET path ==
            [fetch_day_ahead_energy_lmp |-> "data\\energy\\day_ahead\\energy_day_ahead_",
             fetch_day_ahead_OR_lmp     |-> "data\\operating_reserve\\day_ahead\\OR_day_ahead_",
             fetch_predisp_energy_lmp   |-> "data\\energy\\predispatch\\energy_predispatch_",
             fetch_predisp_OR_lmp       |-> "data\\operating_reserve\\predispatch\\OR_predispatch_",
             fetch_real_time_energy_lmp |-> "data\\energy\\real_time\\energy_real_time_",
             fetch_real_time_OR_lmp     |-> "data\\operating_reserve\\real_time\\OR_real_time_"]
    IN  path[fetcher] \o FileDate(date_str) \o ".csv"

\* A local file is described by the day and the hours its report holds
File(day, hrs) == [day |-> day, hrs |-> hrs]

\* The delivery hours of a dispatch day
DispatchDayHours == 1..24

\* Python's range(a, b)
range(a, b) == a..(b - 1)

\* The delivery hours of the table a fetcher stores: the Real-Time fetchers
\* request one report per element of `hours` and concatenate them, the other
\* fetchers download the one report of the day
StoredHours(fetcher) ==
    IF fetcher \in {"fetch_real_time_energy_lmp", "fetch_real_time_OR_lmp"}
    THEN range(1, 24)
    ELSE DispatchDayHours

NoFiles == [f \in {} |-> File(0, {})]

\* pd.read_csv(path) of a local report file
ReadLocal(files, fetcher, date_str) ==
    LET f == files[ReadPath(fetcher, date_str)]
    IN  CASE fetcher = "fetch_day_ahead_energy_lmp" ->
                HourlyReport(EnergyMetrics, 1, f.day, f.hrs, "Delivery Hour")
          [] fetcher = "fetch_day_ahead_OR_lmp" ->
                HourlyReport(ORMetrics, 1, f.day, f.hrs, "Delivery Hour")
          [] fetcher = "fetch_predisp_energy_lmp" ->
                HourlyReport(EnergyMetrics, 2, f.day, f.hrs, "Delivery Hour")
          [] fetcher = "fetch_predisp_OR_lmp" ->
                HourlyReport(ORMetrics, 2, f.day, f.hrs, "DELIVERY_HOUR")
          [] fetcher = "fetch_real_time_energy_lmp" ->
                RealTimeReport(EnergyMetrics, f.day, [h \in f.hrs |-> Intervals])
          [] fetcher = "fetch_real_time_OR_lmp" ->
                RealTimeReport(ORMetrics, f.day, [h \in f.hrs |-> Intervals])

CanRead(files, date_str) ==
    \A i \in DOMAIN Fetchers : ReadPath(Fetchers[i], date_str) \in DOMAIN files

\* The report files of a date present under the names the flow reads: the
\* Pre-Dispatch reports hold the hours pdHrs, the other reports hour 1
ProvidedFiles(date_str, pdHrs) ==
    [path \in {ReadPath(Fetchers[i], date_str) : i \in DOMAIN Fetchers} |->
        IF path \in {ReadPath("fetch_predisp_energy_lmp", date_str),
                     ReadPath("fetch_predisp_OR_lmp", date_str)}
        THEN File(date_str[2], pdHrs) ELSE File(date_str[2], {1})]

NoBranch == [fn \in AppendFns |-> ""]
NoTables == [fn \in AppendFns |-> EmptyFrame(<<>>)]

InitFlow ==
    /\ store = InitialBucket
    /\ pc = "idle"
    /\ \E d \in Days \ {0} :
          /\ run = [date_str |-> DateText(d, 0), n |-> 0, held |-> {},
                    branch |-> NoBranch, df |-> NoTables]
          /\ fs \in {NoFiles, ProvidedFiles(DateText(d, 0), {1}),
                     ProvidedFiles(DateText(d, 0), {2})}
    /\ AppendUnusedButStore /\ MergeUnused /\ ConcUnused

flowRest == <<target, last, prev, written, ncalls, mismatched, mergeVars, procs>>

\* The datasets that hold rows of the run's date
HeldIn(bucket, date_str) ==
    {fn \in AppendFns : date_str[2] \in DaysOfBlob(bucket[BlobPaths[fn]])}

\* run_all_flow(date_today_str) is started, for the first time or again
StartRun ==
    /\ pc \in {"idle", "done", "failed"} /\ run.n < MaxRuns
    /\ run' = [run EXCEPT !.n = @ + 1, !.held = HeldIn(store, run.date_str),
                          !.branch = NoBranch, !.df = NoTables]
    /\ pc' = Fetchers[1]
    /\ UNCHANGED <<store, fs, flowRest>>

\* A fetch: on HTTP 200 the report is saved under SavedPath, and a to_csv that
\* fails is caught and printed; on another status the fetcher raises
\* ConnectionError (raises) or returns an empty DataFrame
Fetch(fetcher, raises) ==
    /\ pc = fetcher
    /\ \E status_code \in {200, 404}, saved \in BOOLEAN :
          IF status_code = 200
          THEN /\ fs' = IF saved
                        THEN (SavedPath(fetcher, run.date_str) :>
                                  File(run.date_str[2], StoredHours(fetcher))) @@ fs
                        ELSE fs
               /\ pc' = After(fetcher)
          ELSE /\ fs' = fs
               /\ pc' = IF raises THEN "failed" ELSE After(fetcher)
    /\ UNCHANGED <<store, run, flowRest>>

FetchDayAheadEnergy == Fetch("fetch_day_ahead_energy_lmp", TRUE)
FetchDayAheadOR == Fetch("fetch_day_ahead_OR_lmp", FALSE)
FetchPredispEnergy == Fetch("fetch_predisp_energy_lmp", FALSE)
FetchPredispOR == Fetch("fetch_predisp_OR_lmp", FALSE)
FetchRealTimeEnergy == Fetch("fetch_real_time_energy_lmp", TRUE)
FetchRealTimeOR == Fetch("fetch_real_time_OR_lmp", TRUE)

\* The six pd.read_csv of create_hourly_data / create_interval_data and the two
\* create_* calls: energy and orr name the append functions the two merged
\* tables are for
Create(step, energy, orr, e_ok, e_df, o_ok, o_df) ==
    /\ pc = step
    /\ IF e_ok /\ o_ok
       THEN /\ run' = [run EXCEPT !.df[energy] = e_df, !.df[orr] = o_df]
            /\ pc' = After(step)
       ELSE /\ run' = run
            /\ pc' = "failed"
    /\ UNCHANGED <<store, fs, flowRest>>

Abort(step) ==
    /\ pc = step /\ pc' = "failed"
    /\ UNCHANGED <<store, run, fs, flowRest>>

CreateHourlyData ==
    IF CanRead(fs, run.date_str)
    THEN LET e(f) == ReadLocal(fs, f, run.date_str)
         IN  \E eda \in {e("fetch_day_ahead_energy_lmp")} :
             \E epd \in {e("fetch_predisp_energy_lmp")} :
             \E ert \in {e("fetch_real_time_energy_lmp")} :
             \E oda \in {e("fetch_day_ahead_OR_lmp")} :
             \E opd \in {e("fetch_predisp_OR_lmp")} :
             \E ort \in {e("fetch_real_time_OR_lmp")} :
                Create("create_hourly_data", "add_hourly_energy_data", "add_hourly_OR_data",
                       create_hourly_energy_data_ok(eda, epd, ert),
                       create_hourly_energy_data(eda, epd, ert),
                       create_hourly_OR_data_ok(oda, opd, ort),
                       create_hourly_OR_data(oda, opd, ort))
    ELSE Abort("create_hourly_data")

CreateIntervalData ==
    IF CanRead(fs, run.date_str)
    THEN LET e(f) == ReadLocal(fs, f, run.date_str)
         IN  \E eda \in {e("fetch_day_ahead_energy_lmp")} :
             \E epd \in {e("fetch_predisp_energy_lmp")} :
             \E ert \in {e("fetch_real_time_energy_lmp")} :
             \E oda \in {e("fetch_day_ahead_OR_lmp")} :
             \E opd \in {e("fetch_predisp_OR_lmp")} :
             \E ort \in {e("fetch_real_time_OR_lmp")} :
                Create("create_interval_data", "add_interval_energy_data",
                       "add_interval_OR_data",
                       create_interval_energy_data_ok(eda, epd, ert),
                       create_interval_energy_data(eda, epd, ert),
                       create_interval_OR_data_ok(oda, opd, ort),
                       create_interval_OR_data(oda, opd, ort))
    ELSE Abort("create_interval_data")

\* An append call of the flow that returned res; a KeyError ends the run
Appended(fn, res) ==
    IF res.outcome = "KeyError"
    THEN Abort(fn)
    ELSE /\ pc = fn
         /\ store' = res.bucket
         /\ run' = [run EXCEPT !.branch[fn] = res.outcome]
         /\ pc' = After(fn)
         /\ UNCHANGED <<fs, flowRest>>

\* The bucket cannot be read or written: the call raises before it changes
\* anything
BucketError(fn) == Abort(fn)

FlowAddHourlyEnergy ==
    /\ pc = "add_hourly_energy_data"
    /\ \/ BucketError(pc)
       \/ \E res \in {add_hourly_energy_data(store, run.df[pc], run.date_str)} :
             Appended(pc, res)

FlowAddHourlyOR ==
    /\ pc = "add_hourly_OR_data"
    /\ \/ BucketError(pc)
       \/ \E res \in {add_hourly_OR_data(store, run.df[pc], run.date_str)} :
             Appended(pc, res)

FlowAddIntervalEnergy ==
    /\ pc = "add_interval_energy_data"
    /\ \/ BucketError(pc)
       \/ \E res \in {add_interval_energy_data(store, run.df[pc], run.date_str)} :
             Appended(pc, res)

FlowAddIntervalOR ==
    /\ pc = "add_interval_OR_data"
    /\ \/ BucketError(pc)
       \/ \E res \in {add_interval_OR_data(store, run.df[pc], run.date_str)} :
             Appended(pc, res)

NextFlow ==
    \/ StartRun
    \/ FetchDayAheadEnergy
    \/ FetchDayAheadOR
    \/ FetchPredispEnergy
    \/ FetchPredispOR
    \/ FetchRealTimeEnergy
    \/ FetchRealTimeOR
    \/ CreateHourlyData
    \/ FlowAddHourlyEnergy
    \/ FlowAddHourlyOR
    \/ CreateIntervalData
    \/ FlowAddIntervalEnergy
    \/ FlowAddIntervalOR

SpecFlow == InitFlow /\ [][NextFlow]_vars

----------------------------------------------------------------------------
(* SpecFilter: filter.py, apply_filters on a historical dataset as the      *)
(* dashboard loads it                                                       *)

\* Python's None, where a list or a timestamp is optional
None == <<"None">>

\* Python truth value of an optional list or timestamp: None and the empty
\* list are false
Truthy(v) == v # None /\ v # <<>>

\* The pricing locations of the loaded dataset
Locations == <<"A", "B">>

AtLocation(df, loc) ==
    [df EXCEPT !.rows = [i \in DOMAIN df.rows |->
        [df.rows[i] EXCEPT !["Pricing Location"] = loc]]]

\* load_dataset(url) of the dataset fn appends to: the merged tables of the
\* days 0..MaxDay at every location, Date parsed
RECURSIVE DatasetUpTo(_, _)
DatasetUpTo(fn, d) ==
    LET today == Flatten([l \in DOMAIN Locations |->
                    AtLocation(MergedDay(fn, d, {1}), Locations[l]).rows])
    IN  IF d = 0 THEN today ELSE DatasetUpTo(fn, d - 1) \o today

load_dataset(fn) ==
    ParseDates(ToCsv([columns |-> MergedDay(fn, 0, {1}).columns,
                      rows |-> DatasetUpTo(fn, MaxDay)]))

\* str.endswith for the column names of the datasets: the name is the suffix
\* alone or a metric name, an underscore and the suffix
EndsWith(col, sfx) ==
    \/ col = sfx
    \/ \E m \in Range(EnergyMetrics) \cup Range(ORMetrics) : col = m \o "_" \o sfx

\* The columns apply_filters keeps: the key columns, then for every selected
\* dispatch type the columns of df ending with it
ColToKeepList(df, dispatch_type, hourly_bool) ==
    <<"Date", "Pricing Location", "Delivery Hour">>
    \o (IF hourly_bool THEN <<>> ELSE <<"Interval">>)
    \o Flatten([k \in DOMAIN dispatch_type |->
            SelectSeq(df.columns, LAMBDA col : EndsWith(col, dispatch_type[k]))])

\* apply_filters raises KeyError when df lacks a column it selects
apply_filters_ok(df, locations, dispatch_type, on_date, start_date, end_date, hourly_bool) ==
    Truthy(dispatch_type)
        => HasColumns(df, ColToKeepList(df, dispatch_type, hourly_bool))

\* apply_filters (its parameter `date` is on_date here); every df[mask] keeps
\* the rows of the mask in their order
apply_filters(df, locations, dispatch_type, on_date, start_date, end_date, hourly_bool) ==
    LET by_location ==
            IF Truthy(locations)
            THEN [df EXCEPT !.rows = SelectSeq(df.rows,
                     LAMBDA r : r["Pricing Location"] \in Range(locations))]
            ELSE df
        by_date ==
            IF Truthy(on_date)
            THEN [by_location EXCEPT !.rows = SelectSeq(by_location.rows,
                     LAMBDA r : r["Date"] = to_datetime(on_date))]
            ELSE by_location
        by_range ==
            IF Truthy(start_date) /\ Truthy(end_date)
            THEN [by_date EXCEPT !.rows = SelectSeq(by_date.rows,
                     LAMBDA r : /\ DateLeq(to_datetime(start_date), r["Date"])
                                /\ DateLeq(r["Date"], to_datetime(end_date)))]
            ELSE by_date
    IN  IF Truthy(dispatch_type)
        THEN SelectColumns(by_range, ColToKeepList(df, dispatch_type, hourly_bool))
        ELSE by_range

\* The arguments of a call: the dataset, and what the sidebar or another
\* caller can pass
FilterArgs ==
    [fn : AppendFns,
     locations : {None, <<>>, <<"A">>, <<"B", "A">>, <<"C">>},
     dispatch_type : {None, <<>>, <<"Day_Ahead">>, <<"Real_Time", "Day_Ahead">>,
                      <<"Day_Ahead", "Pre_Dispatch", "Real_Time">>},
     on_date : {None},
     span : {<<None, None>>, <<DateText(0, 0), DateText(MaxDay, 0)>>,
              <<DateText(1, 0), DateText(1, 0)>>, <<<<1, 0>>, <<MaxDay, 0>>>>,
              <<DateText(MaxDay, 0), DateText(1, 0)>>, <<DateText(1, 0), None>>},
     hourly_bool : BOOLEAN]
    \cup
    [fn : AppendFns, locations : {None}, dispatch_type : {None},
     on_date : {<<1, 0>>}, span : {<<None, None>>}, hourly_bool : BOOLEAN]

InitFilter ==
    /\ inp \in FilterArgs
    /\ out = <<>>
    /\ AppendUnused /\ ConcUnused /\ FlowUnused

\* One call of apply_filters; df is the caller's table after the call
ApplyFilters ==
    /\ out = <<>>
    /\ \E df \in {load_dataset(inp.fn)} :
          LET ok == apply_filters_ok(df, inp.locations, inp.dispatch_type, inp.on_date,
                                     inp.span[1], inp.span[2], inp.hourly_bool)
          IN  out' = [fn |-> "apply_filters", ok |-> ok, df |-> df,
                      df_filtered |->
                          IF ok
                          THEN apply_filters(df, inp.locations, inp.dispatch_type,
                                             inp.on_date, inp.span[1], inp.span[2],
                                             inp.hourly_bool)
                          ELSE EmptyFrame(<<>>)]
    /\ UNCHANGED <<inp, appendVars, procs, flowVars>>

NextFilter == ApplyFilters

SpecFilter == InitFilter /\ [][NextFilter]_vars

----------------------------------------------------------------------------
(* SpecAuth: test.py, check_password in a browser session.  The script runs *)
(* from the top on every interaction; a submitted text sets the widget's    *)
(* key in session_state and calls password_entered before the script runs   *)
(* again.                                                                   *)

MaxSubmits == 4

\* The texts a user may submit, and the passwords st.secrets may configure
Entries == {"", "hunter2", "letmein", "opensesame", "guess"}
Secrets == {"hunter2", "letmein", "opensesame"}

\* del st.session_state[key]
Del(session_state, key) == [k \in DOMAIN session_state \ {key} |-> session_state[k]]

\* st.session_state[key] = v
Set(session_state, key, v) == (key :> v) @@ session_state

password_entered_keeps(session_state, secret) ==
    Set(session_state, "authenticated", session_state["password"] = secret)

\* The on_change callback password_entered
password_entered(session_state, secret) ==
    IF session_state["password"] = secret
    THEN Del(Set(session_state, "authenticated", TRUE), "password")
    ELSE Set(session_state, "authenticated", FALSE)

\* st.text_input(..., key = "password"): a widget drawn for the first time
\* puts its empty value under its key
text_input(session_state) ==
    IF "password" \in DOMAIN session_state THEN session_state
    ELSE Set(session_state, "password", "")

\* check_password(): TRUE when execution goes on past it, FALSE on st.stop()
check_password_passes(session_state) ==
    "authenticated" \in DOMAIN session_state /\ session_state["authenticated"]

NoSession == [k \in {} |-> FALSE]

InitAuth ==
    /\ inp \in [secret : Secrets]
    /\ pc = "run"
    /\ run = [session_state |-> NoSession, page |-> "", n |-> 0, entered |-> ""]
    /\ out = <<>> /\ fs = <<>>
    /\ AppendUnused /\ ConcUnused

authRest == <<appendVars, inp, out, procs, fs>>

\* One run of the script: check_password draws the login form and stops, or
\* lets the pages be drawn
CheckPassword ==
    /\ pc = "run"
    /\ IF check_password_passes(run.session_state)
       THEN /\ run' = [run EXCEPT !.page = "app"]
            /\ pc' = "app"
       ELSE /\ run' = [run EXCEPT
                         !.page = IF "authenticated" \in DOMAIN run.session_state
                                  THEN "login_incorrect" ELSE "login",
                         !.session_state = text_input(run.session_state)]
            /\ pc' = "stopped"
    /\ UNCHANGED authRest

\* The user submits a text in the login form: on_change fires when the text
\* differs from the widget's value
SubmitPassword ==
    /\ pc = "stopped" /\ run.n < MaxSubmits
    /\ \E entry \in Entries \ {run.session_state["password"]} :
          run' = [run EXCEPT
                     !.session_state =
                         password_entered(Set(run.session_state, "password", entry),
                                          inp.secret),
                     !.n = @ + 1, !.entered = entry]
    /\ pc' = "run"
    /\ UNCHANGED authRest

\* The user acts on a widget of the pages: the script runs again
Interact ==
    /\ pc = "app"
    /\ pc' = "run"
    /\ UNCHANGED <<run, authRest>>

NextAuth ==
    \/ CheckPassword
    \/ SubmitPassword
    \/ Interact

SpecAuth == InitAuth /\ [][NextAuth]_vars

----------------------------------------------------------------------------
(* Properties of the append functions under Spec *)

Called == last # <<>>
LastPath == BlobPaths[last.fn]
LastTable == DayTable(last.fn, last.table)
TargetDay == date(normalize(to_datetime(last.date_str)))
LoadedDays == DaysOfBlob(last.loaded)
Unchanged == store[LastPath] = last.loaded

\* The new-day table is the conforming table of date_str's own day
IsDayTable(call) ==
    /\ call.table.shape = "same"
    /\ call.table.day = date(to_datetime(call.date_str))

\* C1: calling an append function twice in sequence with the same date_str
\* and the same day's table leaves exactly one copy of that date's rows in
\* the persisted dataset, and the second call performs no write.
C1_TwiceSameDay ==
    (/\ Called /\ prev # <<>>
     /\ last.date_str = prev.date_str /\ last.table = prev.table
     /\ IsDayTable(last))
    => /\ ~last.wrote
       /\ IF TargetDay \in DaysOfBlob(prev.loaded)
          THEN store[LastPath] = prev.loaded
          ELSE RowsOfDay(store[LastPath], TargetDay)
               = ToCsv(NormalizeDates(LastTable)).rows

CreationSets(d) == IF d = 0 THEN 1 ELSE 0

\* C2 as stated: whatever the date_str arguments and the new-day tables, no
\* calendar date's rows are written by more than one append call (the rows a
\* dataset was created with counting as one set).
C2_OneSetPerDate_AnyTable ==
    target # "none" => \A d \in Days : written[d] + CreationSets(d) <= 1

\* C2 amended: when every call's new-day table holds only rows of its
\* date_str's calendar date, no calendar date's rows are written by more than
\* one append call.
C2_OneSetPerDate ==
    (target # "none" /\ ~mismatched)
    => \A d \in Days : written[d] + CreationSets(d) <= 1

C2_Witness ==
    /\ Called /\ prev # <<>> /\ ~mismatched
    /\ prev.outcome = "Appended" /\ last.outcome = "Skipped"
    /\ TargetDay = 1 /\ written[1] = 1

\* C3: when the normalized target date is among the dates of the loaded
\* dataset, the call takes the Skipped branch, does not call write_df_to_gcs
\* and leaves the persisted dataset identical.
C3_PresentDateSkips ==
    (Called /\ TargetDay \in LoadedDays)
    => (last.outcome = "Skipped" /\ ~last.wrote /\ Unchanged)

C3_Witness ==
    /\ Called /\ prev # <<>> /\ prev.outcome = "Appended"
    /\ TargetDay \in LoadedDays /\ TargetDay # 0
    /\ last.table.shape = "missing" /\ last.outcome = "Skipped"

\* C4: append-only: every row of a persisted dataset is still in it, at its
\* place and with the same values, after any later append call.
KeepsRows(old, new) ==
    /\ Len(new.rows) >= Len(old.rows)
    /\ \A i \in DOMAIN old.rows : \A c \in DOMAIN old.rows[i] :
          c \in DOMAIN new.rows[i] /\ new.rows[i][c] = old.rows[i][c]

C4_AppendOnly ==
    [][target # "none" => \A p \in Paths : KeepsRows(store[p], store'[p])]_vars

C4_Witness ==
    /\ Called /\ prev # <<>>
    /\ prev.outcome = "Appended" /\ last.outcome = "Appended"
    /\ Len(store[LastPath].rows) > Len(last.loaded.rows)
    /\ Len(last.loaded.rows) > Len(prev.loaded.rows)
    /\ KeepsRows(prev.loaded, store[LastPath])

\* C5: appending a new-day table whose columns are a permutation of the
\* historical columns (target date absent) succeeds, and the persisted
\* dataset keeps the column names and order of the dataset loaded.
IsPermutation(a, b) == Len(a) = Len(b) /\ Range(a) = Range(b)

C5_PermutationKeepsOrder ==
    (/\ Called /\ TargetDay \notin LoadedDays
     /\ IsPermutation(LastTable.columns, last.loaded.columns))
    => /\ last.outcome = "Appended"
       /\ store[LastPath].columns = last.loaded.columns

C5_Witness ==
    /\ Called /\ last.table.shape = "permuted" /\ last.outcome = "Appended"
    /\ LastTable.columns # last.loaded.columns
    /\ store[LastPath].columns = last.loaded.columns
    /\ Len(store[LastPath].rows) > Len(last.loaded.rows)

\* C6: appending a new-day table that lacks a column of the historical schema
\* (target date absent) ends in a schema error, writes nothing and leaves the
\* persisted dataset unchanged.
C6_MissingColumnRejected ==
    (/\ Called /\ TargetDay \notin LoadedDays
     /\ Range(last.loaded.columns) \ Range(LastTable.columns) # {})
    => (last.outcome = "KeyError" /\ ~last.wrote /\ Unchanged)

\* C7: any difference between the new-day table's column set and the
\* historical schema is a schema error, and no append persists a dataset in
\* which a column of the new table was dropped or a column is null-filled.
NoNullCell(blob) ==
    \A i \in DOMAIN blob.rows : \A c \in DOMAIN blob.rows[i] \ Range(IntervalKey) :
        blob.rows[i][c] # NaN

C7_AnyMismatchRejected ==
    /\ (/\ Called /\ TargetDay \notin LoadedDays
        /\ Range(last.loaded.columns) # Range(LastTable.columns))
       => (last.outcome = "KeyError" /\ ~last.wrote /\ Unchanged)
    /\ (Called /\ last.wrote)
       => /\ Range(LastTable.columns) \subseteq Range(store[LastPath].columns)
          /\ NoNullCell(store[LastPath])

\* The rows of a stored dataset are in ascending Date order
Ascending(blob) ==
    \A i, j \in DOMAIN blob.rows :
        i < j => DateLeq(to_datetime(blob.rows[i]["Date"]),
                         to_datetime(blob.rows[j]["Date"]))

\* C21: after every append that takes the Appended branch, also one of a date
\* earlier than dates already present, the rows of the persisted dataset are
\* in ascending Date order (every new-day table holding rows of its own
\* date_str's date).
C21_PersistedAscending ==
    (Called /\ ~mismatched /\ last.outcome = "Appended") => Ascending(store[LastPath])

\* stored holds the rows of loaded in their order, then the rows of the
\* new-day table tbl as the call normalizes and writes them
IsLoadedThenNew(stored, loaded, tbl) ==
    \E df \in {tbl}, old \in {loaded.rows}, all \in {stored.rows},
       cols \in {Range(stored.columns)} :
      \E new \in {ToCsv(NormalizeDates(df)).rows} :
        /\ Len(all) = Len(old) + Len(new)
        /\ \A i \in DOMAIN old : \A c \in DOMAIN old[i] :
              c \in DOMAIN all[i] /\ all[i][c] = old[i][c]
        /\ \A i \in DOMAIN new :
              \A c \in DOMAIN new[i] \cap cols :
                  all[Len(old) + i][c] = new[i][c]

\* C24: after an append that takes the Appended branch, the dataset written
\* is the full replacement made of the rows of the dataset loaded in the call,
\* in their loaded order, followed by the rows of the new-day table; the one
\* write goes to the blob of the dataset that was loaded, and no other blob
\* changes.
C24_FullReplacement ==
    [][(target # "none" /\ last'.outcome = "Appended") =>
          /\ last'.wrote
          /\ last'.loaded = store[BlobPaths[last'.fn]]
          /\ IsLoadedThenNew(store'[BlobPaths[last'.fn]], store[BlobPaths[last'.fn]],
                             DayTable(last'.fn, last'.table))
          /\ \A p \in Paths \ {BlobPaths[last'.fn]} : store'[p] = store[p]]_vars

\* A day earlier than one already present was appended after the rows loaded
C24_Witness ==
    /\ Called /\ last.outcome = "Appended" /\ last.wrote
    /\ TargetDay = 1 /\ MaxDay \in LoadedDays
    /\ LastTable.rows # <<>>
    /\ IsLoadedThenNew(store[LastPath], last.loaded, LastTable)
    /\ date(to_datetime(store[LastPath].rows[Len(store[LastPath].rows)]["Date"])) = 1

\* C27: after a call with date_str d that took the Appended branch and wrote,
\* date d is in the persisted dataset, and the call that follows with the same
\* date_str takes Skipped whatever new-day tables were passed.
C27_AppendedThenSkipped ==
    (/\ Called /\ prev # <<>>
     /\ prev.outcome = "Appended" /\ prev.wrote
     /\ last.date_str = prev.date_str)
    => (TargetDay \in LoadedDays /\ last.outcome = "Skipped")

----------------------------------------------------------------------------
(* Properties of the date check under SpecDecide *)

Decided == out # <<>> /\ out.fn \in AppendFns

\* The calendar day of date_str, and the calendar days of the dataset loaded
AskedDay == to_datetime(inp.date_str)[1]
HeldDays == DaysOfBlob(out.loaded)

\* C25: the Skipped/Appended decision depends only on calendar dates: a
\* historical row of the target day makes the call take Skipped whatever its
\* time-of-day, and the decision is the same for every date_str of the same
\* calendar day.
C25_CalendarDayDecides ==
    Decided =>
        /\ out.outcome = IF AskedDay \in HeldDays THEN "Skipped" ELSE "Appended"
        /\ \A tod \in TimesOfDay :
              AppendFrom(out.fn, ParseDates(out.loaded), DayTable(out.fn, inp.table),
                         DateText(AskedDay, tod)).outcome = out.outcome

\* The target day is held with a time-of-day, date_str is of midnight
C25_Witness ==
    /\ Decided /\ out.outcome = "Skipped" /\ ~out.wrote
    /\ to_datetime(inp.date_str) = <<1, 0>>
    /\ \E i \in DOMAIN out.loaded.rows : to_datetime(out.loaded.rows[i]["Date"]) = <<1, 1>>

----------------------------------------------------------------------------
(* Properties of the create_* functions under SpecMerge *)

CreateFns ==
    {"create_hourly_energy_data", "create_hourly_OR_data",
     "create_interval_energy_data", "create_interval_OR_data"}
Created == out # <<>> /\ out.fn \in CreateFns /\ out.ok
IsIntervalFn == out.fn \in {"create_interval_energy_data", "create_interval_OR_data"}

\* The keys each raw input holds, read off the inputs themselves
InDayAhead(hour) == hour \in inp.da
InPreDispatch(hour) == hour \in inp.pd /\ inp.pdDay = inp.day
InRealTimeHour(hour) == hour \in Hours /\ inp.rt[hour] # {}
InRealTimeInterval(hour, itv) == hour \in Hours /\ itv \in inp.rt[hour]

\* C10: a key absent from at least one of the three horizon tables never
\* appears in the merged output of a create_* function.
C10_AbsentKeyExcluded ==
    Created =>
        \A i \in DOMAIN out.df.rows :
            LET r == out.df.rows[i] IN
            /\ r["Pricing Location"] = Loc
            /\ r["Date"] = <<inp.day, 0>>
            /\ InDayAhead(r["Delivery Hour"])
            /\ InPreDispatch(r["Delivery Hour"])
            /\ IF IsIntervalFn
               THEN InRealTimeInterval(r["Delivery Hour"], r["Interval"])
               ELSE InRealTimeHour(r["Delivery Hour"])

\* Hour 1 is in all three inputs, hour 2 in Day-Ahead and Real-Time only, and
\* interval 12 of hour 1 is missing from Real-Time: the interval merge holds
\* the eleven other intervals of hour 1 and nothing else
C10_Witness ==
    /\ Created /\ out.fn = "create_interval_OR_data"
    /\ inp.da = {1, 2} /\ inp.pd = {1} /\ inp.pdDay = inp.day
    /\ inp.rt[1] = Intervals \ {NumIntervals} /\ inp.rt[2] = Intervals
    /\ Len(out.df.rows) = NumIntervals - 1
    /\ \A i \in DOMAIN out.df.rows : out.df.rows[i]["Delivery Hour"] = 1

\* The metric columns of the function that was called, and its three inputs
OutMetrics ==
    IF out.fn \in {"create_hourly_energy_data", "create_interval_energy_data"}
    THEN EnergyMetrics ELSE ORMetrics
OutDA == InputDA(inp, OutMetrics)
OutPD == InputPD(inp, OutMetrics)
OutRT == InputRT(inp, OutMetrics)

\* The keys all three inputs hold: <<hour, interval>>, interval 0 for an
\* hourly function
CommonHours == {h \in Hours : InDayAhead(h) /\ InPreDispatch(h) /\ InRealTimeHour(h)}
CommonKeys ==
    IF IsIntervalFn
    THEN {<<h, k>> : h \in CommonHours, k \in Intervals} \cap
         {<<h, k>> \in Hours \X Intervals : k \in inp.rt[h]}
    ELSE {<<h, 0>> : h \in CommonHours}

AtKey(r, key) ==
    /\ r["Pricing Location"] = Loc /\ to_datetime(r["Date"]) = <<inp.day, 0>>
    /\ r["Delivery Hour"] = key[1]
    /\ "Interval" \in DOMAIN r /\ key[2] # 0 => r["Interval"] = key[2]

OutRowsAt(key) == {i \in DOMAIN out.df.rows : AtKey(out.df.rows[i], key)}

\* The row of a Day-Ahead or Pre-Dispatch input at an hour (hourCol names the
\* hour column), and of the Real-Time input at an hour and interval
HourRow(df, hourCol, hour) ==
    df.rows[CHOOSE i \in DOMAIN df.rows : df.rows[i][hourCol] = hour]
IntervalRow(df, key) ==
    df.rows[CHOOSE i \in DOMAIN df.rows :
               df.rows[i]["Delivery Hour"] = key[1] /\ df.rows[i]["Interval"] = key[2]]

MetricColumns(r) == DOMAIN r \ Range(IntervalKey)

\* C11: for every key present in all three horizon tables the merged output
\* of a create_* function holds exactly one row, its Day_Ahead, Pre_Dispatch
\* and Real_Time metric columns hold the values of the input rows of that key,
\* and no cell of it is null (the inputs hold no null).
C11_CommonKeyOneRow ==
    Created =>
        \A key \in CommonKeys :
            /\ Cardinality(OutRowsAt(key)) = 1
            /\ LET r == out.df.rows[CHOOSE i \in OutRowsAt(key) : TRUE]
                   da == HourRow(OutDA, "Delivery Hour", key[1])
                   pd == HourRow(OutPD, inp.pdHourCol, key[1])
               IN  /\ \A c \in MetricColumns(r) : r[c] # NaN
                   /\ \A m \in DOMAIN OutMetrics :
                        LET c == OutMetrics[m] IN
                        /\ c \in DOMAIN da =>
                              /\ c \o "_Day_Ahead" \in DOMAIN r
                              /\ r[c \o "_Day_Ahead"] = da[c]
                        /\ c \in DOMAIN pd =>
                              /\ c \o "_Pre_Dispatch" \in DOMAIN r
                              /\ r[c \o "_Pre_Dispatch"] = pd[c]
                        /\ IsIntervalFn /\ c \in DOMAIN IntervalRow(OutRT, key) =>
                              /\ c \o "_Real_Time" \in DOMAIN r
                              /\ r[c \o "_Real_Time"] = IntervalRow(OutRT, key)[c]

\* Both hours are in all three inputs: the hourly merge holds two rows
C11_Witness ==
    /\ Created /\ out.fn = "create_hourly_OR_data"
    /\ CommonHours = {1, 2}
    /\ Len(out.df.rows) = 2

----------------------------------------------------------------------------
(* Properties of the steps under SpecSteps *)

StepOf(fn) == out # <<>> /\ out.fn = fn
StepInput == RawInput(inp, out.market, out.horizon)

\* C12: for an hourly table of N rows expand_to_intervals returns 12 * N rows;
\* the i-th input row yields twelve consecutive output rows whose Interval
\* values are 1, 2, ..., 12 in that order and whose other columns hold the
\* input row's values, the input rows keeping their order.
C12_TwelvePerRow ==
    StepOf("expand_to_intervals") =>
        /\ Len(out.df.rows) = NumIntervals * Len(StepInput.rows)
        /\ \A i \in DOMAIN StepInput.rows : \A k \in Intervals :
              LET r == out.df.rows[NumIntervals * (i - 1) + k]
              IN  /\ r["Interval"] = k
                  /\ DOMAIN r = DOMAIN StepInput.rows[i] \cup {"Interval"}
                  /\ \A c \in DOMAIN StepInput.rows[i] : r[c] = StepInput.rows[i][c]

C12_Witness ==
    /\ StepOf("expand_to_intervals")
    /\ Len(StepInput.rows) = 2
    /\ Len(out.df.rows) = 2 * NumIntervals

\* The interval rows of an hour in the table a step was applied to, and the
\* sum of the numerators of their values in column c (the raw values are
\* whole numbers)
GroupRows(h) == SelectSeq(StepInput.rows, LAMBDA r : r["Delivery Hour"] = h)

RECURSIVE NumSum(_, _)
NumSum(rows, c) ==
    IF rows = <<>> THEN 0 ELSE Head(rows)[c][1] + NumSum(Tail(rows), c)

HoursHeld == {h \in Hours : GroupRows(h) # <<>>}

\* C13: the Real-Time aggregation of the hourly pipeline yields one row per
\* (Pricing Location, Date, Delivery Hour) of the interval input, without an
\* Interval column, and each metric is the sum of the group's interval values
\* divided by the number of interval rows the group holds.
C13_MeanOfPresent ==
    StepOf("real_time_hourly") =>
        /\ Len(out.df.rows) = Cardinality(HoursHeld)
        /\ "Interval" \notin Range(out.df.columns)
        /\ \A h \in HoursHeld :
              \E i \in DOMAIN out.df.rows :
                 LET r == out.df.rows[i] IN
                 /\ r["Delivery Hour"] = h /\ r["Pricing Location"] = Loc
                 /\ r["Date"] = <<inp.day, 0>>
                 /\ "Interval" \notin DOMAIN r
                 /\ \A c \in Range(MarketMetrics(out.market)) \cap Range(StepInput.columns) :
                       /\ c \o "_Real_Time" \in DOMAIN r
                       /\ LET v == r[c \o "_Real_Time"]
                          IN  /\ v[2] > 0
                              /\ v[1] * Len(GroupRows(h)) = NumSum(GroupRows(h), c) * v[2]

\* Hour 1 holds eleven intervals, hour 2 twelve
C13_Witness ==
    /\ StepOf("real_time_hourly")
    /\ Len(GroupRows(1)) = NumIntervals - 1 /\ Len(GroupRows(2)) = NumIntervals
    /\ Len(out.df.rows) = 2

ListedMetrics == Range(MarketMetrics(out.market))

TaggedName(c) ==
    IF c \in ListedMetrics
    THEN c \o (CASE out.horizon = "da" -> "_Day_Ahead"
                 [] out.horizon = "pd" -> "_Pre_Dispatch"
                 [] out.horizon = "rt" -> "_Real_Time")
    ELSE c

\* C16: column normalization renames exactly the listed metric columns of the
\* market (3 for Energy, 6 for Operating Reserve) to <metric>_<Horizon>; every
\* other column keeps its name and every column its values (the Date the same
\* date), and the number and the order of the rows are unchanged.
C16_RenamesListedOnly ==
    StepOf("normalize") =>
        /\ Cardinality(ListedMetrics) = IF out.market = "energy" THEN 3 ELSE 6
        /\ Len(out.df.columns) = Len(StepInput.columns)
        /\ \A j \in DOMAIN StepInput.columns :
              out.df.columns[j] = TaggedName(StepInput.columns[j])
        /\ Len(out.df.rows) = Len(StepInput.rows)
        /\ \A i \in DOMAIN StepInput.rows :
              /\ DOMAIN out.df.rows[i] = {TaggedName(c) : c \in DOMAIN StepInput.rows[i]}
              /\ \A c \in DOMAIN StepInput.rows[i] :
                    IF c = "Date"
                    THEN to_datetime(out.df.rows[i][c]) = to_datetime(StepInput.rows[i][c])
                    ELSE out.df.rows[i][TaggedName(c)] = StepInput.rows[i][c]

\* An Operating-Reserve Pre-Dispatch table of two rows, its six metrics tagged
C16_Witness ==
    /\ StepOf("normalize") /\ out.market = "OR" /\ out.horizon = "pd"
    /\ Len(StepInput.rows) = 2
    /\ Cardinality(Range(out.df.columns) \ Range(StepInput.columns)) = 6
    /\ "LMP 10S_Pre_Dispatch" \in Range(out.df.columns)

----------------------------------------------------------------------------
(* Properties of the hourly and interval values under SpecMerge *)

IsHourlyFn == out.fn \in {"create_hourly_energy_data", "create_hourly_OR_data"}

\* The Real-Time input rows of an hour
RealTimeRows(h) == SelectSeq(OutRT.rows, LAMBDA r : r["Delivery Hour"] = h)

\* Cell c of row r is the mean of column m over rows
IsMeanOf(r, c, rows, m) ==
    /\ c \in DOMAIN r
    /\ r[c][2] > 0
    /\ r[c][1] * Len(rows) = NumSum(rows, m) * r[c][2]

\* C14: for every key present in all three raw inputs, the row the hourly
\* create functions produce holds the Day-Ahead value in <metric>_Day_Ahead,
\* the Pre-Dispatch value in <metric>_Pre_Dispatch and the mean of the hour's
\* Real-Time interval values in <metric>_Real_Time.
C14_HourlyValues ==
    (Created /\ IsHourlyFn) =>
        \A h \in CommonHours :
            \E i \in DOMAIN out.df.rows :
               LET r == out.df.rows[i]
                   da == HourRow(OutDA, "Delivery Hour", h)
                   pd == HourRow(OutPD, inp.pdHourCol, h)
               IN  /\ AtKey(r, <<h, 0>>)
                   /\ \A m \in Range(OutMetrics) :
                        /\ m \in DOMAIN da =>
                              m \o "_Day_Ahead" \in DOMAIN r /\ r[m \o "_Day_Ahead"] = da[m]
                        /\ m \in DOMAIN pd =>
                              m \o "_Pre_Dispatch" \in DOMAIN r
                              /\ r[m \o "_Pre_Dispatch"] = pd[m]
                        /\ m \in Range(OutRT.columns) =>
                              IsMeanOf(r, m \o "_Real_Time", RealTimeRows(h), m)

\* The example: Day-Ahead 10, Pre-Dispatch 11, Real-Time twelve times 12 for
\* location A, hour 1 give LMP 10, 11, 12 in the merged hourly row
C14_Witness ==
    /\ Created /\ out.fn = "create_hourly_energy_data"
    /\ inp.variant = "example"
    /\ Len(RealTimeRows(1)) = NumIntervals
    /\ \A j \in 1..NumIntervals : RealTimeRows(1)[j]["LMP"] = Val(12)
    /\ \E i \in DOMAIN out.df.rows :
          LET r == out.df.rows[i] IN
          /\ r["Pricing Location"] = "A" /\ r["Delivery Hour"] = 1
          /\ r["LMP_Day_Ahead"] = Val(10)
          /\ r["LMP_Pre_Dispatch"] = Val(11)
          /\ r["LMP_Real_Time"] = Val(12)

HasHourRow(df, hourCol, hour) ==
    \E i \in DOMAIN df.rows : df.rows[i][hourCol] = hour
HasIntervalRow(df, key) ==
    \E i \in DOMAIN df.rows :
        df.rows[i]["Delivery Hour"] = key[1] /\ df.rows[i]["Interval"] = key[2]

\* C15: in the output of the interval create functions every row holds, in its
\* Day_Ahead and Pre_Dispatch metrics, the hourly input values of its hour (so
\* all rows of an hour hold the same), and in its Real_Time metrics the values
\* of the Real-Time input row of its own interval.
C15_IntervalValues ==
    (Created /\ IsIntervalFn) =>
        \A i \in DOMAIN out.df.rows :
            LET r == out.df.rows[i]
                h == r["Delivery Hour"]
                key == <<r["Delivery Hour"], r["Interval"]>>
            IN  /\ HasHourRow(OutDA, "Delivery Hour", h)
                /\ HasHourRow(OutPD, inp.pdHourCol, h)
                /\ HasIntervalRow(OutRT, key)
                /\ \A m \in Range(OutMetrics) :
                     /\ m \in Range(OutDA.columns) =>
                           r[m \o "_Day_Ahead"] = HourRow(OutDA, "Delivery Hour", h)[m]
                     /\ m \in Range(OutPD.columns) =>
                           r[m \o "_Pre_Dispatch"] = HourRow(OutPD, inp.pdHourCol, h)[m]
                     /\ m \in Range(OutRT.columns) =>
                           r[m \o "_Real_Time"] = IntervalRow(OutRT, key)[m]

\* The twelve rows of hour 1 hold one Day-Ahead LMP and twelve different
\* Real-Time LMPs
C15_Witness ==
    /\ Created /\ out.fn = "create_interval_energy_data"
    /\ inp.variant = "plain"
    /\ Cardinality({i \in DOMAIN out.df.rows : out.df.rows[i]["Delivery Hour"] = 1})
           = NumIntervals
    /\ Cardinality({out.df.rows[i]["LMP_Day_Ahead"] : i \in
                       {j \in DOMAIN out.df.rows : out.df.rows[j]["Delivery Hour"] = 1}}) = 1
    /\ Cardinality({out.df.rows[i]["LMP_Real_Time"] : i \in
                       {j \in DOMAIN out.df.rows : out.df.rows[j]["Delivery Hour"] = 1}})
           = NumIntervals

----------------------------------------------------------------------------
(* Properties of schema drift and empty merges *)

\* Some raw input of the call lacks a metric column of its market
MissingMetric ==
    \E df \in {OutDA, OutPD, OutRT} : ~(Range(OutMetrics) \subseteq Range(df.columns))

\* C17: when a source table lacks one of the metric columns of its market, the
\* normalization fails and no merged table is produced.
C17_MissingMetricRejected ==
    (out # <<>> /\ out.fn \in CreateFns /\ MissingMetric) => ~out.ok

\* C19: when the Operating-Reserve Pre-Dispatch table names its hour column
\* DELIVERY_HOUR, create_hourly_OR_data and create_interval_OR_data return
\* what they return for the same input with the column named Delivery Hour.
C19_DeliveryHourRenamed ==
    (out # <<>> /\ out.fn \in {"create_hourly_OR_data", "create_interval_OR_data"}
        /\ inp.pdHourCol = "DELIVERY_HOUR") =>
        LET canonical == InputPD([inp EXCEPT !.pdHourCol = "Delivery Hour"], ORMetrics)
        IN  /\ out.ok
            /\ "DELIVERY_HOUR" \notin Range(out.df.columns)
            /\ out.df = IF out.fn = "create_hourly_OR_data"
                        THEN create_hourly_OR_data(OutDA, canonical, OutRT)
                        ELSE create_interval_OR_data(OutDA, canonical, OutRT)

C19_Witness ==
    /\ out # <<>> /\ out.fn = "create_interval_OR_data" /\ out.ok
    /\ inp.pdHourCol = "DELIVERY_HOUR"
    /\ "DELIVERY_HOUR" \in Range(OutPD.columns)
    /\ Len(out.df.rows) = 2 * NumIntervals

\* C18: when the horizon merge yields zero rows the run ends in an error: no
\* run completes having appended a merged table of zero rows.
C18_EmptyMergeSurfaced ==
    ~(/\ pc = "done"
      /\ \E fn \in AppendFns :
            run.df[fn].rows = <<>> /\ run.branch[fn] = "Appended")

\* C22: the Real-Time table that fetch_real_time_energy_lmp and
\* fetch_real_time_OR_lmp store covers every delivery hour 1..24 of the date.
C22_RealTimeAllHours ==
    \A fetcher \in {"fetch_real_time_energy_lmp", "fetch_real_time_OR_lmp"} :
        (pc # "unused" /\ SavedPath(fetcher, run.date_str) \in DOMAIN fs)
            => fs[SavedPath(fetcher, run.date_str)].hrs = DispatchDayHours

----------------------------------------------------------------------------
(* Properties of apply_filters under SpecFilter *)

Filtered == out # <<>> /\ out.fn = "apply_filters"

\* The rows and the columns the filter is to return
WantedRows ==
    SelectSeq(out.df.rows, LAMBDA r :
        /\ (inp.locations = None \/ r["Pricing Location"] \in Range(inp.locations))
        /\ DateLeq(to_datetime(inp.span[1]), r["Date"])
        /\ DateLeq(r["Date"], to_datetime(inp.span[2])))

KeyColumns ==
    {"Date", "Pricing Location", "Delivery Hour"}
    \cup (IF inp.hourly_bool THEN {} ELSE {"Interval"})

WantedColumns ==
    KeyColumns \cup {c \in Range(out.df.columns) :
                        \E k \in DOMAIN inp.dispatch_type : EndsWith(c, inp.dispatch_type[k])}

\* C23: apply_filters returns exactly the input rows whose Pricing Location
\* is in `locations` (all locations when it is None) and whose Date lies
\* between start_date and end_date inclusive, keeps the key columns plus only
\* the columns ending with a selected dispatch type, and leaves the input
\* table unchanged.
C23_FilterExact ==
    (/\ Filtered /\ out.ok /\ inp.on_date = None
     /\ inp.span[1] # None /\ inp.span[2] # None /\ inp.dispatch_type # None)
    => /\ Range(out.df_filtered.columns) = WantedColumns
       /\ Len(out.df_filtered.rows) = Len(WantedRows)
       /\ \A i \in DOMAIN out.df_filtered.rows :
             \A c \in WantedColumns : out.df_filtered.rows[i][c] = WantedRows[i][c]
       /\ out.df = load_dataset(inp.fn)

----------------------------------------------------------------------------
(* Properties of run_all_flow under SpecFlow *)

\* The reports of the run's date that no fetch has saved
NotSaved ==
    {Fetchers[i] : i \in {j \in DOMAIN Fetchers :
                             SavedPath(Fetchers[j], run.date_str) \notin DOMAIN fs}}

\* C20: a failed step aborts the run: in the first run for a date, no step
\* after the six fetches is reached while a fetch has not obtained and saved
\* its report.
C20_FailedFetchAborts ==
    (run.n = 1 /\ pc \in Range(FlowSteps) \ Range(Fetchers)) => NotSaved = {}

----------------------------------------------------------------------------
(* Properties of overlapping append runs under SpecConc *)

RunDay(p) == date(normalize(to_datetime(procs[p].date_str)))

\* Runs p and q both appended, for different dates, and neither loaded the
\* dataset after the other had written its date
Overlapped(p, q) ==
    /\ procs[p].pc = "done" /\ procs[q].pc = "done"
    /\ procs[p].outcome = "Appended" /\ procs[q].outcome = "Appended"
    /\ RunDay(p) # RunDay(q)
    /\ RunDay(q) \notin DaysIn(procs[p].historical_df)
    /\ RunDay(p) \notin DaysIn(procs[q].historical_df)

\* C9: when two runs for different dates, both absent from a dataset, both
\* load the dataset before either persists, and both complete without error,
\* the persisted dataset holds only one of the two dates.
C9_LostUpdate ==
    target # "none" =>
        \A p \in Procs : \A q \in Procs \ {p} :
            Overlapped(p, q) =>
                Cardinality({RunDay(p), RunDay(q)}
                            \cap DaysOfBlob(store[BlobPaths[target]])) = 1

C9_Witness ==
    /\ target # "none"
    /\ \E p \in Procs : \E q \in Procs \ {p} :
          /\ Overlapped(p, q)
          /\ RunDay(p) \notin DaysOfBlob(store[BlobPaths[target]])
          /\ RunDay(q) \in DaysOfBlob(store[BlobPaths[target]])

\* C28: under any interleaving of runs on one dataset, each run's new-day
\* table holding only rows of its own date_str's date, the persisted dataset
\* never holds the rows of one date twice.
C28_NoDuplicateDate ==
    target # "none" =>
        \A d \in Days :
            RowsOfDay(store[BlobPaths[target]], d)
                \in {<<>>, ToCsv(MergedDay(target, d, {1})).rows}

\* Two runs for day 1 both loaded the dataset without it and both appended;
\* the dataset holds the rows of day 1 once
C28_Witness ==
    /\ target # "none"
    /\ \A p \in Procs :
          /\ procs[p].pc = "done" /\ procs[p].outcome = "Appended"
          /\ RunDay(p) = 1
          /\ 1 \notin DaysIn(procs[p].historical_df)
    /\ RowsOfDay(store[BlobPaths[target]], 1) = ToCsv(MergedDay(target, 1, {1})).rows

----------------------------------------------------------------------------
(* Properties of the flow under SpecFlow *)

FlowDay == run.date_str[2]

\* C8: when a run of the flow for a date ended part-way and a later run for
\* the same date completes, every append of the completed run skipped the
\* dataset that already held the date and appended to the dataset that did
\* not, and every dataset holds the rows of the date exactly once.
C8_RetryCompletes ==
    (pc = "done" /\ run.n > 1) =>
        \A fn \in AppendFns :
            /\ run.branch[fn] = IF fn \in run.held THEN "Skipped" ELSE "Appended"
            /\ RowsOfDay(store[BlobPaths[fn]], FlowDay) = ToCsv(run.df[fn]).rows

\* The completed run found the date in some datasets, left there by the run
\* that failed, and not in the others
C8_Witness ==
    /\ pc = "done" /\ run.n > 1
    /\ run.held \notin {{}, AppendFns}
    /\ \A fn \in AppendFns : Len(RowsOfDay(store[BlobPaths[fn]], FlowDay)) > 0

\* C29: every raw file create_hourly_data and create_interval_data read for
\* the date is the file import_daily_data wrote for the same market, horizon
\* and date, so a run whose six fetches all saved their report finds all six
\* inputs.
C29_ReadsWhatWasSaved ==
    (pc \in {"create_hourly_data", "create_interval_data"} /\ NotSaved = {}) =>
        /\ CanRead(fs, run.date_str)
        /\ \A i \in DOMAIN Fetchers :
              /\ ReadPath(Fetchers[i], run.date_str) = SavedPath(Fetchers[i], run.date_str)
              /\ fs[ReadPath(Fetchers[i], run.date_str)]
                     = File(FlowDay, StoredHours(Fetchers[i]))

\* The order of events the flow is to keep
EventOrder ==
    <<"fetch_day_ahead_energy_lmp", "fetch_day_ahead_OR_lmp",
      "fetch_predisp_energy_lmp", "fetch_predisp_OR_lmp",
      "fetch_real_time_energy_lmp", "fetch_real_time_OR_lmp",
      "create_hourly_data", "add_hourly_energy_data", "add_hourly_OR_data",
      "create_interval_data", "add_interval_energy_data", "add_interval_OR_data">>

EventIndex(step) == CHOOSE i \in DOMAIN EventOrder : EventOrder[i] = step

Ended == {"idle", "done", "failed"}

\* C26: within one run the six fetches, the hourly merges, the hourly energy
\* append, the hourly OR append, the interval merges, the interval energy
\* append and the interval OR append occur in this order, and no dataset is
\* appended to before the merge that produced its table has completed.
C26_EventOrder ==
    [][/\ pc \in Ended => pc' = EventOrder[1]
       /\ pc \notin Ended =>
             /\ pc \in Range(EventOrder)
             /\ \/ pc' = "failed"
                \/ pc' = "done" /\ EventIndex(pc) = Len(EventOrder)
                \/ pc' \in Range(EventOrder) /\ EventIndex(pc') = EventIndex(pc) + 1
       /\ \A fn \in AppendFns :
             store'[BlobPaths[fn]] # store[BlobPaths[fn]] =>
                 /\ pc = fn
                 /\ run.df[fn].columns # <<>>
                 /\ EventIndex(fn) > EventIndex(IF fn \in {"add_hourly_energy_data",
                                                           "add_hourly_OR_data"}
                                                THEN "create_hourly_data"
                                                ELSE "create_interval_data")]_vars

\* A first run that went through every step and appended to all four datasets
C26_Witness ==
    /\ pc = "done" /\ run.n = 1
    /\ \A fn \in AppendFns :
          /\ run.branch[fn] = "Appended"
          /\ Len(RowsOfDay(store[BlobPaths[fn]], FlowDay)) > 0

----------------------------------------------------------------------------
(* Properties of check_password under SpecAuth *)

Authenticated ==
    "authenticated" \in DOMAIN run.session_state /\ run.session_state["authenticated"]

\* C30 as stated: the pages are drawn only while
\* session_state['authenticated'] is True, the flag is True only by a
\* submission equal to the configured secret, and after every submission the
\* entered password is no longer held in session_state.
C30_PasswordGate_EverySubmission ==
    /\ run.page = "app" => Authenticated
    /\ Authenticated => (run.n > 0 /\ run.entered = inp.secret)
    /\ run.n > 0 => ~(/\ "password" \in DOMAIN run.session_state
                      /\ run.session_state["password"] = run.entered)

\* C30 amended: the pages are drawn only while session_state['authenticated']
\* is True, the flag is True only by a submission equal to the configured
\* secret, and after a submission equal to the secret the entered password is
\* no longer held in session_state (a rejected entry stays under 'password').
C30_PasswordGate ==
    /\ run.page = "app" => Authenticated
    /\ Authenticated => (run.n > 0 /\ run.entered = inp.secret)
    /\ (run.n > 0 /\ run.entered = inp.secret) =>
          "password" \notin DOMAIN run.session_state
    /\ (run.n > 0 /\ run.entered # inp.secret) =>
          /\ ~Authenticated
          /\ run.session_state["password"] = run.entered

\* The secret was submitted after a rejected entry and the pages are drawn
C30_Witness ==
    /\ pc = "app" /\ run.page = "app" /\ run.n > 1
    /\ Authenticated /\ run.entered = inp.secret
    /\ "password" \notin DOMAIN run.session_state

====
